---- MODULE Spec2Model ----
(***************************************************************************)
(* Apple refurbished-product tracker: the tracking scheduler               *)
(* (startTracking / stopTracking / trackProducts of AppleTracker), the     *)
(* product-history store (FirebaseService) and the product key functions.  *)
(* Strings whose characters matter (URLs) are sequences of one-character   *)
(* strings, so that split / replace are computed and not assumed.          *)
(***************************************************************************)
EXTENDS Integers, Sequences, FiniteSets, TLC

VARIABLES
    phase,            \* "boot" | "init" | "serving": AppleTracker.start()
    initialized,      \* firebaseService.initialized
    isTracking,       \* this.isTracking
    trackingInterval, \* this.trackingInterval: 0 (null) or a timer handle
    timers,           \* handles of the setInterval timers that are armed
    nTimers,          \* handles handed out so far
    systemState,      \* persisted SystemState.isTracking
    products,         \* collection 'products': document id -> data
    starts,           \* startTracking calls in flight
    stops,            \* stopTracking calls in flight
    nReqs,            \* start/stop requests received so far
    quiet,            \* a stop completed and no start was accepted since it was requested
    passes,           \* trackProducts calls in flight
    nPasses,          \* passes begun so far
    nTicks,           \* times the interval has fired so far
    seenKeys,         \* keys scraped by the returned passes that met no store failure
    savedKeys,        \* SpecHistory: product keys handed to saveProductHistory so far
    fin,              \* argument of the function applied (function specifications)
    fout,             \* its result
    db,               \* documents of the collections other than 'products'
    reqs              \* HTTP and LINE handlers in flight on those collections

vars == <<phase, initialized, isTracking, trackingInterval, timers, nTimers,
          systemState, products, starts, stops, nReqs, quiet, passes, nPasses,
          nTicks, seenKeys, savedKeys, fin, fout, db, reqs>>

svcVars == <<db, reqs>>

appVars == <<phase, initialized, isTracking, trackingInterval, timers, nTimers,
             systemState, starts, stops, nReqs, quiet, passes, nPasses,
             nTicks, seenKeys>>

(***************************************************************************)
(* Bounds                                                                  *)
(***************************************************************************)
MaxReqs == 3
MaxPasses == 2
MaxTicks == 1
MaxScrape == 2
MaxUrlLen == 3
MaxQueryLen == 2
MaxSaves == 2
MaxMatches == 21
MaxList == 2

(***************************************************************************)
(* Characters and strings                                                  *)
(***************************************************************************)
Digits == {"0", "1", "2", "3", "4", "5", "6", "7", "8", "9"}

Letters == {"a", "b", "c", "d", "e", "f", "g", "h", "i", "j", "k", "l", "m",
            "n", "o", "p", "q", "r", "s", "t", "u", "v", "w", "x", "y", "z",
            "A", "B", "C", "D", "E", "F", "G", "H", "I", "J", "K", "L", "M",
            "N", "O", "P", "Q", "R", "S", "T", "U", "V", "W", "X", "Y", "Z"}

AlphaNum == Letters \cup Digits

UrlChars == {"a", "/", "?", "-"}

SeqsUpTo(S, n) == UNION {[1..k -> S] : k \in 0..n}

SetMin(S) == CHOOSE x \in S : \A y \in S : x <= y

SetMax(S) == CHOOSE x \in S : \A y \in S : y <= x

Range(s) == {s[i] : i \in DOMAIN s}

(***************************************************************************)
(* Product key resolver                                                    *)
(***************************************************************************)
\* variant: cuts at the last "?" instead of the first
getProductKeyLast(url) ==
    LET qs == {i \in DOMAIN url : url[i] = "?"}
    IN  IF qs = {} THEN url ELSE SubSeq(url, 1, SetMax(qs) - 1)

\* url.split("?")[0]
getProductKey(url) ==
    LET qs == {i \in DOMAIN url : url[i] = "?"}
    IN  IF qs = {} THEN url ELSE SubSeq(url, 1, SetMin(qs) - 1)

\* url.split('/').pop()
LastSegment(url) ==
    LET sl == {i \in DOMAIN url : url[i] = "/"}
    IN  IF sl = {} THEN url ELSE SubSeq(url, SetMax(sl) + 1, Len(url))

\* .replace(/[^a-zA-Z0-9]/g, '_')
Sanitize(s) == [i \in DOMAIN s |-> IF s[i] \in AlphaNum THEN s[i] ELSE "_"]

getProductId(url) == Sanitize(LastSegment(url))

(***************************************************************************)
(* Listings.  A scraped product is a record; only its url decides its      *)
(* identity.  UA and UAq differ in the query string only; UA and UB are    *)
(* different products (different part number) whose last path segment is   *)
(* the same.                                                               *)
(***************************************************************************)
NULL == "null"

UA  == <<"p", "/", "a">>
UAq == <<"p", "/", "a", "?", "f">>
UB  == <<"q", "/", "a">>
UC  == <<"p", "/", "c">>

Urls == {UA, UAq, UB, UC}

Listing(u) ==
    [url   |-> u,
     price |-> IF u = UB THEN <<"N", "T", "$", "3", "0">> ELSE <<"N", "T", "$", "9", "0">>,
     specs |-> [productType |-> IF u = UC THEN "Mac mini" ELSE "MacBook Air",
                chip        |-> IF u = UB THEN NULL ELSE "M4",
                color       |-> NULL,
                memory      |-> IF u = UB THEN <<>> ELSE <<"1", "6", "G", "B">>,
                storage     |-> <<"5", "1", "2", "G", "B">>]]

Catalog == {Listing(u) : u \in Urls}

(***************************************************************************)
(* Product history store (FirebaseService)                                 *)
(***************************************************************************)
EmptyStore == [d \in {} |-> NULL]

\* batch.set(doc(getProductId(productKey)), {...product, productKey, ...}, {merge: true})
batchSet(store, product) ==
    LET productKey == getProductKey(product.url)
        id == getProductId(productKey)
    IN  [d \in DOMAIN store \cup {id} |->
            IF d = id THEN [url |-> product.url, productKey |-> productKey]
            ELSE store[d]]

RECURSIVE batchSetAll(_, _, _)
batchSetAll(store, list, i) ==
    IF i > Len(list) THEN store
    ELSE batchSetAll(batchSet(store, list[i]), list, i + 1)

\* variant: the save replaces the collection by the list
saveProductHistoryReplace(store, list) == batchSetAll(EmptyStore, list, 1)

\* products.forEach(batch.set ...); await batch.commit()
saveProductHistory(store, list) == batchSetAll(store, list, 1)

\* snapshot.docs.forEach(doc => products.set(getProductKey(doc.data().url), data))
getProductHistory(store) ==
    LET keys == {getProductKey(store[d].url) : d \in DOMAIN store}
    IN  [k \in keys |-> store[CHOOSE d \in DOMAIN store : getProductKey(store[d].url) = k]]

(***************************************************************************)
(* Diff engine                                                             *)
(***************************************************************************)
\* variant: looks the raw url up in the history, not its key
RECURSIVE detectLoopByUrl(_, _, _, _)
detectLoopByUrl(currentProducts, previousProducts, i, newProducts) ==
    IF i > Len(currentProducts) THEN newProducts
    ELSE detectLoopByUrl(currentProducts, previousProducts, i + 1,
            IF currentProducts[i].url \notin DOMAIN previousProducts
            THEN Append(newProducts, currentProducts[i])
            ELSE newProducts)

\* for (const product of currentProducts) if (!previousProducts.has(key)) push
RECURSIVE detectLoop(_, _, _, _)
detectLoop(currentProducts, previousProducts, i, newProducts) ==
    IF i > Len(currentProducts) THEN newProducts
    ELSE detectLoop(currentProducts, previousProducts, i + 1,
            IF getProductKey(currentProducts[i].url) \notin DOMAIN previousProducts
            THEN Append(newProducts, currentProducts[i])
            ELSE newProducts)

\* variant: no initialized guard, every product is new without a store
detectNewProductsUnguarded(ready, lookupThrows, store, currentProducts) ==
    IF ~ready THEN currentProducts
    ELSE IF lookupThrows THEN <<>>
    ELSE detectLoop(currentProducts, getProductHistory(store), 1, <<>>)

\* variant: the catch block returns the whole scrape
detectNewProductsAllOnError(ready, lookupThrows, store, currentProducts) ==
    IF ~ready THEN <<>>
    ELSE IF lookupThrows THEN currentProducts
    ELSE detectLoop(currentProducts, getProductHistory(store), 1, <<>>)

\* ready: firebaseService.initialized; lookupThrows: getProductHistory rejects
detectNewProducts(ready, lookupThrows, store, currentProducts) ==
    IF ~ready THEN <<>>
    ELSE IF lookupThrows THEN <<>>
    ELSE detectLoop(currentProducts, getProductHistory(store), 1, <<>>)

(***************************************************************************)
(* State after construction (AppleTracker constructor, FirebaseService     *)
(* constructor); the store is the persisted one.                           *)
(***************************************************************************)
NoOut == [done |-> FALSE]

Constructed ==
    /\ db = <<>>
    /\ reqs = <<>>
    /\ phase = "boot"
    /\ initialized = FALSE
    /\ isTracking = FALSE
    /\ trackingInterval = 0
    /\ timers = {}
    /\ nTimers = 0
    /\ starts = <<>>
    /\ stops = <<>>
    /\ nReqs = 0
    /\ quiet = FALSE
    /\ passes = <<>>
    /\ nPasses = 0
    /\ nTicks = 0
    /\ seenKeys = {}

(***************************************************************************)
(* SpecKey: getProductKey applied to a URL, to the URL with a query string *)
(* appended, and to its own result.                                        *)
(***************************************************************************)
InitKey ==
    /\ Constructed
    /\ systemState = FALSE
    /\ products = EmptyStore
    /\ savedKeys = {}
    /\ fin \in [u : SeqsUpTo(UrlChars, MaxUrlLen), q : SeqsUpTo(UrlChars, MaxQueryLen)]
    /\ fout = NoOut

ApplyKey ==
    /\ ~fout.done
    /\ fout' = [done      |-> TRUE,
                plain     |-> getProductKey(fin.u),
                withQuery |-> getProductKey(fin.u \o <<"?">> \o fin.q),
                twice     |-> getProductKey(getProductKey(fin.u))]
    /\ UNCHANGED <<appVars, systemState, products, savedKeys, svcVars, fin>>

NextKey == ApplyKey

SpecKey == InitKey /\ [][NextKey]_vars

\* C6: for every URL u and query string q, getProductKey(u + "?" + q) equals
\* getProductKey(u), and getProductKey(getProductKey(u)) equals getProductKey(u).
C6_KeyStable ==
    fout.done => /\ fout.withQuery = fout.plain
                 /\ fout.twice = fout.plain

\* a URL that already carries a query string gets a second one appended
C6_Witness ==
    /\ fout.done
    /\ "?" \in Range(fin.u)
    /\ "?" \in Range(fin.q)
    /\ fout.plain # fin.u
    /\ fout.plain # <<>>

(***************************************************************************)
(* SpecDiff: detectNewProducts applied to a scrape, for the stores that    *)
(* saveProductHistory can leave behind.                                    *)
(***************************************************************************)
InitDiff ==
    /\ Constructed
    /\ systemState = FALSE
    /\ products \in {saveProductHistory(EmptyStore, l) : l \in SeqsUpTo(Catalog, MaxSaves)}
    /\ savedKeys = {}
    /\ fin \in [ready : BOOLEAN, lookupThrows : BOOLEAN,
                current : SeqsUpTo(Catalog, MaxScrape)]
    /\ fout = NoOut

ApplyDetect ==
    /\ ~fout.done
    /\ fout' = [done |-> TRUE,
                newProducts |-> detectNewProducts(fin.ready, fin.lookupThrows,
                                                  products, fin.current)]
    /\ UNCHANGED <<appVars, systemState, products, savedKeys, svcVars, fin>>

NextDiff == ApplyDetect

SpecDiff == InitDiff /\ [][NextDiff]_vars

\* the product keys the stored history records
StoredKeys(store) == {store[d].productKey : d \in DOMAIN store}

NotStored(p) == getProductKey(p.url) \notin StoredKeys(products)

\* C5: with the store reachable, detectNewProducts returns exactly the products
\* of the scrape whose key is not a key of the stored history, in scrape order;
\* all of them for an empty history, none for an empty scrape, and not a
\* listing that differs from a stored one in its query string only.
C5_DiffExact ==
    (fout.done /\ fin.ready /\ ~fin.lookupThrows) =>
        /\ fout.newProducts = SelectSeq(fin.current, NotStored)
        /\ (products = EmptyStore => fout.newProducts = fin.current)
        /\ (fin.current = <<>> => fout.newProducts = <<>>)
        /\ \A i \in DOMAIN fout.newProducts :
              \A d \in DOMAIN products :
                 getProductKey(products[d].url) # getProductKey(fout.newProducts[i].url)

\* history {A}, current [A?f, C]: only C is new
C5_Witness ==
    /\ fout.done /\ fin.ready /\ ~fin.lookupThrows
    /\ StoredKeys(products) = {UA}
    /\ fin.current = <<Listing(UAq), Listing(UC)>>
    /\ fout.newProducts = <<Listing(UC)>>

\* C10 as stated: a failed lookup, an unavailable store or an empty history
\* makes detectNewProducts return the empty list.
C10_Original ==
    (fout.done /\ (~fin.ready \/ fin.lookupThrows \/ products = EmptyStore)) =>
        fout.newProducts = <<>>

\* C10 amended: a failed lookup (getProductHistory throws) or an unavailable
\* store (not initialised) makes detectNewProducts return the empty list; an
\* empty history that was read successfully makes every scraped product new.
C10_LookupFailure ==
    fout.done =>
        /\ (~fin.ready \/ fin.lookupThrows) => fout.newProducts = <<>>
        /\ (fin.ready /\ ~fin.lookupThrows /\ products = EmptyStore)
              => fout.newProducts = fin.current

\* the lookup throws for a scrape that holds a product the history lacks
C10_Witness ==
    /\ fout.done /\ fin.ready /\ fin.lookupThrows
    /\ \E i \in DOMAIN fin.current : NotStored(fin.current[i])
    /\ products # EmptyStore
    /\ fout.newProducts = <<>>

(***************************************************************************)
(* SpecHistory: any sequence of saveProductHistory calls.                  *)
(***************************************************************************)
UD  == <<"p", "/", "a", "-", "b">>
UE  == <<"p", "/", "a", "_", "b">>
UDq == <<"p", "/", "a", "-", "b", "?", "f">>
UF  == <<"p", "/", "d">>

HistoryUrls == Urls \cup {UD, UE, UDq, UF}

KeysOf(list) == {getProductKey(list[i].url) : i \in DOMAIN list}

InitHistory ==
    /\ Constructed
    /\ systemState = FALSE
    /\ products = EmptyStore
    /\ savedKeys = {}
    /\ fin = NoOut
    /\ fout = NoOut

SaveHistory(list) ==
    /\ products' = saveProductHistory(products, list)
    /\ savedKeys' = savedKeys \cup KeysOf(list)
    /\ UNCHANGED <<appVars, systemState, svcVars, fin, fout>>

NextHistory ==
    \E list \in SeqsUpTo({Listing(u) : u \in HistoryUrls}, MaxSaves) : SaveHistory(list)

SpecHistory == InitHistory /\ [][NextHistory]_vars

\* C7: the stored history holds exactly one record per distinct ProductKey ever
\* saved; listings with different keys never share a record.
C7_OneRecordPerKey ==
    /\ StoredKeys(products) = savedKeys
    /\ Cardinality(DOMAIN products) = Cardinality(savedKeys)

(***************************************************************************)
(* Rule filter engine (AppleTracker.filterProducts)                        *)
(***************************************************************************)
NaN == -1

DigitVal(c) == CHOOSE n \in 0..9 : <<"0", "1", "2", "3", "4", "5", "6", "7", "8", "9">>[n + 1] = c

RECURSIVE LeadingInt(_, _, _)
LeadingInt(s, i, acc) ==
    IF i > Len(s) \/ s[i] \notin Digits THEN acc
    ELSE LeadingInt(s, i + 1, acc * 10 + DigitVal(s[i]))

\* parseInt(s): the leading digits, NaN when there is none
parseInt(s) ==
    IF s = <<>> \/ s[1] \notin Digits THEN NaN ELSE LeadingInt(s, 1, 0)

\* s.replace(/[^\d]/g, "")
DigitsOnly(s) == SelectSeq(s, LAMBDA c : c \in Digits)

\* parseInt(product.price?.replace(/[^\d]/g, "") || "0")
priceOf(product) ==
    LET d == DigitsOnly(product.price)
    IN  parseInt(IF d = <<>> THEN <<"0">> ELSE d)

\* a FilterSpec with every field absent (falsy)
NoFilter == [productType |-> NULL, chip |-> NULL, color |-> NULL,
             minMemory |-> 0, maxPrice |-> 0, minStorage |-> <<>>]

\* variant: a memory that does not parse passes the minMemory test
matchesFiltersNaNPasses(product, filters) ==
    LET specs == product.specs
    IN  /\ ~(filters.productType # NULL /\ specs.productType # filters.productType)
        /\ ~(filters.chip # NULL /\ specs.chip # filters.chip)
        /\ ~(filters.color # NULL /\ specs.color # filters.color)
        /\ ~(filters.minMemory # 0 /\ parseInt(specs.memory) # NaN
               /\ parseInt(specs.memory) < filters.minMemory)
        /\ ~(filters.maxPrice # 0 /\ priceOf(product) > filters.maxPrice)

\* variant: a product of the wanted color is accepted at once
matchesFiltersEarlyAccept(product, filters) ==
    LET specs == product.specs
    IN  \/ (filters.color # NULL /\ specs.color = filters.color)
        \/ /\ ~(filters.productType # NULL /\ specs.productType # filters.productType)
           /\ ~(filters.chip # NULL /\ specs.chip # filters.chip)
           /\ ~(filters.color # NULL /\ specs.color # filters.color)
           /\ ~(filters.minMemory # 0 /\
                  (parseInt(specs.memory) = NaN \/ parseInt(specs.memory) < filters.minMemory))
           /\ ~(filters.maxPrice # 0 /\ priceOf(product) > filters.maxPrice)

\* AppleTracker.filterProducts reads no other field of filters (minStorage is
\* not looked at)

matchesFilters(product, filters) ==
    LET specs == product.specs
    IN  /\ ~(filters.productType # NULL /\ specs.productType # filters.productType)
        /\ ~(filters.chip # NULL /\ specs.chip # filters.chip)
        /\ ~(filters.color # NULL /\ specs.color # filters.color)
        /\ ~(filters.minMemory # 0 /\
               (parseInt(specs.memory) = NaN \/ parseInt(specs.memory) < filters.minMemory))
        /\ ~(filters.maxPrice # 0 /\ priceOf(product) > filters.maxPrice)

filterProducts(list, filters) == SelectSeq(list, LAMBDA p : matchesFilters(p, filters))

(***************************************************************************)
(* Users and their tracking rules (collections 'users', 'trackingRules')   *)
(***************************************************************************)
UserIds == <<"u1", "u2", "u3">>

UserDoc(u) == [lineUserId |-> u, isActive |-> u # "u3"]

RuleDocs(u) ==
    IF u = "u1" THEN
        << [name |-> "air", enabled |-> TRUE,
            filters |-> [NoFilter EXCEPT !.productType = "MacBook Air"]],
           [name |-> "m4", enabled |-> TRUE,
            filters |-> [NoFilter EXCEPT !.chip = "M4", !.minMemory = 16]],
           [name |-> "off", enabled |-> FALSE, filters |-> NoFilter] >>
    ELSE IF u = "u2" THEN
        << [name |-> "cheap", enabled |-> TRUE,
            filters |-> [NoFilter EXCEPT !.productType = "MacBook Air", !.maxPrice = 35]] >>
    ELSE << [name |-> "any", enabled |-> TRUE, filters |-> NoFilter] >>

\* variant: the query without its where clause
getActiveUsersDropped == UserIds

\* users.where('isActive', '==', true)
getActiveUsers == SelectSeq(UserIds, LAMBDA u : UserDoc(u).isActive)

\* variant: the query without its where clause
whereEnabledDropped(rules) == rules

\* rulesRef.where('enabled', '==', true)
whereEnabled(rules) == SelectSeq(rules, LAMBDA r : r.enabled)

getUserTrackingRules(u) == whereEnabled(RuleDocs(u))

(***************************************************************************)
(* Notification batcher                                                    *)
(***************************************************************************)
productsPerMessage == 10

\* productRuleMap.has(url) / set / get(url).matchingRules.push(rule.name)
mapPush(map, product, ruleName) ==
    IF \E k \in DOMAIN map : map[k].product.url = product.url
    THEN [k \in DOMAIN map |->
            IF map[k].product.url = product.url
            THEN [map[k] EXCEPT !.matchingRules = Append(@, ruleName)]
            ELSE map[k]]
    ELSE Append(map, [product |-> product, matchingRules |-> <<ruleName>>])

RECURSIVE mapPushAll(_, _, _, _)
mapPushAll(map, newMatches, ruleName, j) ==
    IF j > Len(newMatches) THEN map
    ELSE mapPushAll(mapPush(map, newMatches[j], ruleName), newMatches, ruleName, j + 1)

\* for (const rule of userRules) for (const product of filterProducts(newProducts, rule.filters))
RECURSIVE buildMatches(_, _, _, _)
buildMatches(newProducts, userRules, i, map) ==
    IF i > Len(userRules) THEN map
    ELSE buildMatches(newProducts, userRules, i + 1,
            mapPushAll(map, filterProducts(newProducts, userRules[i].filters),
                       userRules[i].name, 1))

\* Math.ceil(newProducts.length / productsPerMessage)
totalBatches(n) == (n + productsPerMessage - 1) \div productsPerMessage

\* newProducts.slice(i, i + productsPerMessage) of message number b
batchOf(matches, b) ==
    SubSeq(matches, (b - 1) * productsPerMessage + 1,
           IF b * productsPerMessage < Len(matches) THEN b * productsPerMessage
           ELSE Len(matches))

(***************************************************************************)
(* One tracking pass (trackProducts), await by await                       *)
(***************************************************************************)
ZeroResult == [totalProducts |-> 0, newProducts |-> 0, totalNewMatches |-> 0,
               notifiedUsers |-> 0]

NewPass ==
    [pc |-> "scrape", all |-> <<>>, new |-> <<>>, users |-> <<>>, ui |-> 0,
     matches |-> <<>>, mi |-> 0, notified |-> 0, nMatches |-> 0,
     result |-> ZeroResult,
     sent |-> {}, scrapeOk |-> FALSE, storeFail |-> FALSE, lookupFail |-> FALSE,
     earlier |-> seenKeys]

ResultOf(r) ==
    [totalProducts |-> Len(r.all), newProducts |-> Len(r.new),
     totalNewMatches |-> r.nMatches, notifiedUsers |-> r.notified]

\* return { totalProducts, newProducts, totalNewMatches, notifiedUsers }
Returns(r) == [r EXCEPT !.pc = "done", !.result = ResultOf(r)]

\* catch (error) { return { 0, 0, 0, 0 } }
Caught(r) == [r EXCEPT !.pc = "done", !.result = ZeroResult]

\* if (this.firebaseService.initialized) await saveProductHistory(allProducts)
ToSave(r) == IF initialized THEN [r EXCEPT !.pc = "save"] ELSE Returns(r)

\* for (const user of activeUsers): the next await is getUserTrackingRules
ToUser(r, i) ==
    IF i <= Len(r.users) THEN [r EXCEPT !.ui = i, !.pc = "rules"] ELSE ToSave(r)

Without(f, x) == [y \in DOMAIN f \ {x} |-> f[y]]

\* the pass moves on to its next await, or has returned (pc = "done")
Commit(p, r) ==
    /\ passes' = [passes EXCEPT ![p] = r]
    /\ seenKeys' = IF r.pc = "done" /\ ~r.storeFail
                   THEN seenKeys \cup KeysOf(r.all)
                   ELSE seenKeys

schedVars == <<phase, initialized, isTracking, trackingInterval, timers, nTimers,
               systemState, starts, stops, nReqs, quiet, nPasses, nTicks>>

\* the listings on the storefront pages, in page order; a scrape returns some
\* of them (a category page that fails contributes nothing)
Storefront == <<Listing(UA), Listing(UAq), Listing(UB)>>

ScrapeLists ==
    {[i \in DOMAIN pick |-> Storefront[pick[i]]] :
        pick \in {q \in SeqsUpTo(DOMAIN Storefront, MaxScrape) :
                     \A i, j \in DOMAIN q : i < j => q[i] < q[j]}}

\* const allProducts = await this.scrapeProducts()
PassScrape(p) ==
    /\ passes[p].pc = "scrape"
    /\ \E list \in ScrapeLists, ok \in BOOLEAN :
          /\ (~ok => list = <<>>)
          /\ Commit(p, [passes[p] EXCEPT !.all = list, !.scrapeOk = ok, !.pc = "detect"])
    /\ UNCHANGED <<schedVars, products, savedKeys, svcVars, fin, fout>>

\* browser.newPage() or page.close() rejects
PassScrapeThrows(p) ==
    /\ passes[p].pc = "scrape"
    /\ Commit(p, Caught(passes[p]))
    /\ UNCHANGED <<schedVars, products, savedKeys, svcVars, fin, fout>>

\* const newProducts = await this.detectNewProducts(allProducts)
PassDetect(p) ==
    /\ passes[p].pc = "detect"
    /\ \E lookupThrows \in BOOLEAN :
          LET r == passes[p]
              new == detectNewProducts(initialized, lookupThrows, products, r.all)
              failed == ~initialized \/ lookupThrows
              r1 == [r EXCEPT !.new = new, !.lookupFail = failed, !.storeFail = failed]
          IN  /\ (lookupThrows => initialized)
              /\ Commit(p, IF Len(new) = 0 THEN ToSave(r1) ELSE [r1 EXCEPT !.pc = "users"])
    /\ UNCHANGED <<schedVars, products, savedKeys, svcVars, fin, fout>>

\* const activeUsers = await this.firebaseService.getActiveUsers()
PassUsers(p) ==
    /\ passes[p].pc = "users"
    /\ \E throws \in BOOLEAN :
          LET r == passes[p]
          IN  Commit(p, IF throws THEN Caught([r EXCEPT !.storeFail = TRUE])
                        ELSE ToUser([r EXCEPT !.users = getActiveUsers], 1))
    /\ UNCHANGED <<schedVars, products, savedKeys, svcVars, fin, fout>>

\* const userRules = await getUserTrackingRules(user.lineUserId); productRuleMap;
\* const messages = await this.formatNewProductMessage(userNewMatches)
PassRules(p) ==
    /\ passes[p].pc = "rules"
    /\ \E throws \in BOOLEAN :
          LET r == passes[p]
              userNewMatches ==
                  buildMatches(r.new, getUserTrackingRules(r.users[r.ui]), 1, <<>>)
          IN  Commit(p, IF throws THEN Caught([r EXCEPT !.storeFail = TRUE])
                        ELSE IF Len(userNewMatches) > 0
                             THEN [r EXCEPT !.matches = userNewMatches, !.mi = 1, !.pc = "send"]
                             ELSE ToUser(r, r.ui + 1))
    /\ UNCHANGED <<schedVars, products, savedKeys, svcVars, fin, fout>>

\* what notificationManager.sendNotification resolves to: one result per channel
SendResults == {<<TRUE>>, <<FALSE>>, <<TRUE, TRUE>>}

Successes(results) == Cardinality({k \in DOMAIN results : results[k]})

\* const results = await sendNotification(user, messages[i], ...);
\* for (const result of results) if (result.success) { await saveNotification(...);
\*   if (i === 0) notifiedUsersCount++ }  -- all inside try/catch
\* sendThrows: sendNotification rejects; saved: the saveNotification calls that
\* resolve before one rejects (all of them when none does)
PassSend(p) ==
    /\ passes[p].pc = "send"
    /\ \E sendThrows \in BOOLEAN, results \in SendResults, saved \in 0..2 :
          LET r == passes[p]
              user == r.users[r.ui]
              delivered == ~sendThrows /\ Successes(results) > 0
              saveThrows == delivered /\ saved < Successes(results)
              r1 == [r EXCEPT
                       !.sent = IF delivered
                                THEN @ \cup {<<user, m.product.url>> :
                                               m \in Range(batchOf(r.matches, r.mi))}
                                ELSE @,
                       !.notified = IF delivered /\ r.mi = 1 THEN @ + saved ELSE @,
                       !.storeFail = @ \/ saveThrows]
          IN  /\ saved <= Successes(results)
              /\ (sendThrows => results = <<FALSE>> /\ saved = 0)
              /\ (~delivered => saved = 0)
              /\ Commit(p, IF r.mi < totalBatches(Len(r.matches))
                           THEN [r1 EXCEPT !.mi = @ + 1]
                           ELSE ToUser([r1 EXCEPT !.nMatches = @ + Len(r.matches),
                                                  !.matches = <<>>, !.mi = 0],
                                       r.ui + 1))
    /\ UNCHANGED <<schedVars, products, savedKeys, svcVars, fin, fout>>

\* await this.firebaseService.saveProductHistory(allProducts)
PassSave(p) ==
    /\ passes[p].pc = "save"
    /\ Commit(p, Returns(passes[p]))
    /\ products' = saveProductHistory(products, passes[p].all)
    /\ UNCHANGED <<schedVars, savedKeys, svcVars, fin, fout>>

\* batch.commit() rejects
PassSaveThrows(p) ==
    /\ passes[p].pc = "save"
    /\ Commit(p, Caught([passes[p] EXCEPT !.storeFail = TRUE]))
    /\ UNCHANGED <<schedVars, products, savedKeys, svcVars, fin, fout>>

(***************************************************************************)
(* Tracking scheduler (init, startTracking, stopTracking, the interval)    *)
(***************************************************************************)
passVars == <<passes, nPasses, seenKeys>>

\* passes begun, plus the first passes that accepted starts have yet to begin
Committed == nPasses + Cardinality({c \in DOMAIN starts : starts[c].pc = "save"})

\* firebaseService.saveSystemState(isTracking): the persisted singleton record
saveSystemState(b) == systemState' = b

\* firebaseService.getSystemState().isTracking
getSystemState == systemState

\* startTracking up to its first await: this.isTracking = true, then
\* saveSystemState(true) when the store is initialised, trackProducts() otherwise
BeginStart(c, ready) ==
    /\ isTracking' = TRUE
    /\ IF ready
       THEN /\ starts' = (c :> [pc |-> "save", pass |-> 0]) @@ starts
            /\ UNCHANGED passVars
       ELSE /\ starts' = (c :> [pc |-> "pass", pass |-> nPasses + 1]) @@ starts
            /\ passes' = ((nPasses + 1) :> NewPass) @@ passes
            /\ nPasses' = nPasses + 1
            /\ UNCHANGED seenKeys

\* variant: the restart test reads this.isTracking with the wrong polarity
BootNoRestart(ready) ==
    /\ phase = "boot"
    /\ initialized' = ready
    /\ IF ready /\ getSystemState /\ isTracking
       THEN /\ BeginStart(0, ready)
            /\ phase' = "init"
       ELSE /\ phase' = "serving"
            /\ UNCHANGED <<isTracking, starts, passVars>>
    /\ UNCHANGED <<trackingInterval, timers, nTimers, systemState, stops, nReqs,
                   quiet, products, savedKeys, nTicks, svcVars, fin, fout>>

\* init(): firebaseService.initialize(), then the automatic restart when the
\* persisted state says tracking was on
Boot(ready) ==
    /\ phase = "boot"
    /\ initialized' = ready
    /\ IF ready /\ getSystemState /\ ~isTracking
       THEN /\ BeginStart(0, ready)
            /\ phase' = "init"
       ELSE /\ phase' = "serving"
            /\ UNCHANGED <<isTracking, starts, passVars>>
    /\ UNCHANGED <<trackingInterval, timers, nTimers, systemState, stops, nReqs,
                   quiet, products, savedKeys, nTicks, svcVars, fin, fout>>

\* POST /api/track/start and the chat command /start, when not tracking
StartRequest ==
    /\ phase = "serving"
    /\ nReqs < MaxReqs
    /\ Committed < MaxPasses
    /\ ~isTracking
    /\ BeginStart(nReqs + 1, initialized)
    /\ nReqs' = nReqs + 1
    /\ quiet' = FALSE
    /\ stops' = [s \in DOMAIN stops |-> [stops[s] EXCEPT !.dirty = TRUE]]
    /\ UNCHANGED <<phase, initialized, trackingInterval, timers, nTimers, systemState,
                   products, savedKeys, nTicks, svcVars, fin, fout>>

\* the same requests while tracking: { error: "已在追蹤中" } / "系統已在追蹤中"
StartRejected ==
    /\ phase = "serving"
    /\ nReqs < MaxReqs
    /\ isTracking
    /\ nReqs' = nReqs + 1
    /\ UNCHANGED <<phase, initialized, isTracking, trackingInterval, timers, nTimers,
                   systemState, starts, stops, quiet, passVars, products, savedKeys,
                   nTicks, svcVars, fin, fout>>

\* variant: the first pass begins without the state having been persisted
StartSavedUnsaved(c) ==
    /\ starts[c].pc = "save"
    /\ starts' = [starts EXCEPT ![c] = [pc |-> "pass", pass |-> nPasses + 1]]
    /\ passes' = ((nPasses + 1) :> NewPass) @@ passes
    /\ nPasses' = nPasses + 1
    /\ UNCHANGED <<phase, initialized, isTracking, trackingInterval, timers, nTimers,
                   systemState, stops, nReqs, quiet, seenKeys, products, savedKeys,
                   nTicks, svcVars, fin, fout>>

\* await saveSystemState(true) resolves; await this.trackProducts() begins the pass
StartSaved(c) ==
    /\ starts[c].pc = "save"
    /\ saveSystemState(TRUE)
    /\ starts' = [starts EXCEPT ![c] = [pc |-> "pass", pass |-> nPasses + 1]]
    /\ passes' = ((nPasses + 1) :> NewPass) @@ passes
    /\ nPasses' = nPasses + 1
    /\ UNCHANGED <<phase, initialized, isTracking, trackingInterval, timers, nTimers,
                   stops, nReqs, quiet, seenKeys, products, savedKeys, nTicks, svcVars, fin, fout>>

\* await saveSystemState(true) rejects: startTracking rejects, and init() with it
StartSaveThrows(c) ==
    /\ starts[c].pc = "save"
    /\ starts' = Without(starts, c)
    /\ phase' = IF phase = "init" THEN "crashed" ELSE phase
    /\ UNCHANGED <<initialized, isTracking, trackingInterval, timers, nTimers,
                   systemState, stops, nReqs, quiet, passVars, products, savedKeys,
                   nTicks, svcVars, fin, fout>>

\* await this.trackProducts() resumes with the first pass returned:
\* this.trackingInterval = setInterval(..., 60 * 60 * 1000)
StartArm(c) ==
    /\ starts[c].pc = "pass"
    /\ passes[starts[c].pass].pc = "done"
    /\ passes' = Without(passes, starts[c].pass)
    /\ nTimers' = nTimers + 1
    /\ trackingInterval' = nTimers + 1
    /\ timers' = timers \cup {nTimers + 1}
    /\ starts' = Without(starts, c)
    /\ phase' = IF phase = "init" THEN "serving" ELSE phase
    /\ UNCHANGED <<initialized, isTracking, systemState, stops, nReqs, quiet,
                   nPasses, seenKeys, products, savedKeys, nTicks, svcVars, fin, fout>>

\* the interval fires: async () => { await this.trackProducts() }
Tick(t) ==
    /\ t \in timers
    /\ nTicks < MaxTicks
    /\ Committed < MaxPasses
    /\ nTicks' = nTicks + 1
    /\ passes' = ((nPasses + 1) :> NewPass) @@ passes
    /\ nPasses' = nPasses + 1
    /\ UNCHANGED <<phase, initialized, isTracking, trackingInterval, timers, nTimers,
                   systemState, starts, stops, nReqs, quiet, seenKeys,
                   products, savedKeys, svcVars, fin, fout>>

\* the interval callback resumes with its pass returned, and ends
TickReturn(p) ==
    /\ passes[p].pc = "done"
    /\ \A c \in DOMAIN starts : starts[c].pass # p
    /\ passes' = Without(passes, p)
    /\ UNCHANGED <<schedVars, seenKeys, products, savedKeys, svcVars, fin, fout>>

\* stopTracking up to its await: this.isTracking = false; clearInterval of the
\* handle in this.trackingInterval; then saveSystemState(false) when initialised
BeginStop ==
    /\ isTracking' = FALSE
    /\ IF trackingInterval # 0
       THEN /\ timers' = timers \ {trackingInterval}
            /\ trackingInterval' = 0
       ELSE UNCHANGED <<timers, trackingInterval>>
    /\ IF initialized
       THEN /\ stops' = ((nReqs + 1) :> [dirty |-> FALSE]) @@ stops
            /\ UNCHANGED quiet
       ELSE /\ quiet' = TRUE
            /\ UNCHANGED stops

\* POST /api/track/stop: stopTracking() whatever the state
StopRequest ==
    /\ phase = "serving"
    /\ nReqs < MaxReqs
    /\ BeginStop
    /\ nReqs' = nReqs + 1
    /\ UNCHANGED <<phase, initialized, nTimers, systemState, starts, passVars,
                   products, savedKeys, nTicks, svcVars, fin, fout>>

\* chat command /stop: stopTracking() only when tracking
StopCommand ==
    /\ phase = "serving"
    /\ nReqs < MaxReqs
    /\ isTracking
    /\ BeginStop
    /\ nReqs' = nReqs + 1
    /\ UNCHANGED <<phase, initialized, nTimers, systemState, starts, passVars,
                   products, savedKeys, nTicks, svcVars, fin, fout>>

\* chat command /stop while not tracking: "系統目前未在追蹤"
StopRejected ==
    /\ phase = "serving"
    /\ nReqs < MaxReqs
    /\ ~isTracking
    /\ nReqs' = nReqs + 1
    /\ UNCHANGED <<phase, initialized, isTracking, trackingInterval, timers, nTimers,
                   systemState, starts, stops, quiet, passVars, products, savedKeys,
                   nTicks, svcVars, fin, fout>>

\* await saveSystemState(false) resolves: the stop request has completed
StopSaved(c) ==
    /\ c \in DOMAIN stops
    /\ saveSystemState(FALSE)
    /\ quiet' = IF stops[c].dirty THEN quiet ELSE TRUE
    /\ stops' = Without(stops, c)
    /\ UNCHANGED <<phase, initialized, isTracking, trackingInterval, timers, nTimers,
                   starts, nReqs, passVars, products, savedKeys, nTicks, svcVars, fin, fout>>

\* await saveSystemState(false) rejects
StopSaveThrows(c) ==
    /\ c \in DOMAIN stops
    /\ stops' = Without(stops, c)
    /\ UNCHANGED <<phase, initialized, isTracking, trackingInterval, timers, nTimers,
                   systemState, starts, nReqs, quiet, passVars, products, savedKeys,
                   nTicks, svcVars, fin, fout>>

(***************************************************************************)
(* Spec: the process from construction on                                  *)
(***************************************************************************)
Init ==
    /\ Constructed
    /\ systemState \in BOOLEAN
    /\ products = EmptyStore
    /\ savedKeys = {}
    /\ fin = NoOut
    /\ fout = NoOut

Next ==
    \/ \E ready \in BOOLEAN : Boot(ready)
    \/ StartRequest
    \/ StartRejected
    \/ \E c \in DOMAIN starts : StartSaved(c)
    \/ \E c \in DOMAIN starts : StartSaveThrows(c)
    \/ \E c \in DOMAIN starts : StartArm(c)
    \/ \E t \in timers : Tick(t)
    \/ \E p \in DOMAIN passes : TickReturn(p)
    \/ StopRequest
    \/ StopCommand
    \/ StopRejected
    \/ \E c \in DOMAIN stops : StopSaved(c)
    \/ \E c \in DOMAIN stops : StopSaveThrows(c)
    \/ \E p \in DOMAIN passes : PassScrape(p)
    \/ \E p \in DOMAIN passes : PassScrapeThrows(p)
    \/ \E p \in DOMAIN passes : PassDetect(p)
    \/ \E p \in DOMAIN passes : PassUsers(p)
    \/ \E p \in DOMAIN passes : PassRules(p)
    \/ \E p \in DOMAIN passes : PassSend(p)
    \/ \E p \in DOMAIN passes : PassSave(p)
    \/ \E p \in DOMAIN passes : PassSaveThrows(p)

Spec == Init /\ [][Next]_vars

TypeOK ==
    /\ phase \in {"boot", "init", "serving", "crashed"}
    /\ isTracking \in BOOLEAN
    /\ trackingInterval \in 0..nTimers
    /\ timers \subseteq 1..nTimers
    /\ nTicks <= MaxTicks
    /\ nPasses <= MaxPasses
    /\ nReqs <= MaxReqs

(***************************************************************************)
(* SpecPass: the passes of a scheduler that is Running (a start has armed  *)
(* the interval), whatever the store (initialised or not; empty, or        *)
(* holding the history a previous run has left).                           *)
(***************************************************************************)
InitPass ==
    /\ db = <<>>
    /\ reqs = <<>>
    /\ phase = "serving"
    /\ initialized \in BOOLEAN
    /\ isTracking = TRUE
    /\ trackingInterval = 1
    /\ timers = {1}
    /\ nTimers = 1
    /\ systemState = initialized
    /\ starts = <<>>
    /\ stops = <<>>
    /\ nReqs = 0
    /\ quiet = FALSE
    /\ passes = <<>>
    /\ nPasses = 0
    /\ nTicks = 0
    /\ seenKeys = {}
    /\ products \in {EmptyStore, saveProductHistory(EmptyStore, <<Listing(UC)>>)}
    /\ savedKeys = {}
    /\ fin = NoOut
    /\ fout = NoOut

NextPass ==
    \/ \E t \in timers : Tick(t)
    \/ \E p \in DOMAIN passes : TickReturn(p)
    \/ \E p \in DOMAIN passes : PassScrape(p)
    \/ \E p \in DOMAIN passes : PassScrapeThrows(p)
    \/ \E p \in DOMAIN passes : PassDetect(p)
    \/ \E p \in DOMAIN passes : PassUsers(p)
    \/ \E p \in DOMAIN passes : PassRules(p)
    \/ \E p \in DOMAIN passes : PassSend(p)
    \/ \E p \in DOMAIN passes : PassSave(p)
    \/ \E p \in DOMAIN passes : PassSaveThrows(p)

SpecPass == InitPass /\ [][NextPass]_vars

(***************************************************************************)
(* Claims about the scheduler (Spec)                                       *)
(***************************************************************************)
Running == {p \in DOMAIN passes : passes[p].pc # "done"}

\* C1: at most one recurring timer is armed at any time, and a start request
\* that arrives while the scheduler is Running arms no timer and runs no pass.
C1_Original ==
    /\ [](Cardinality(timers) <= 1)
    /\ [][(isTracking /\ (StartRequest \/ StartRejected))
             => (timers' = timers /\ nPasses' = nPasses)]_vars

\* C2: once a stop request has completed, no timer is armed and no pass begins
\* until a later start request is accepted.
C2_Original ==
    /\ [](quiet => timers = {})
    /\ [][(quiet /\ quiet') => nPasses' = nPasses]_vars

\* C3: at most one tracking pass is in progress at any time.
C3_Original == Cardinality(Running) <= 1

(***************************************************************************)
(* Claims about a pass                                                     *)
(***************************************************************************)
\* C4: a product whose key was in the scrape of an earlier pass is never
\* detected as new by a later pass, nor notified to a user by it.  Read in the
\* way most favourable to the code: the earlier pass had returned, without any
\* store failure, before the later pass began.
C4_Original ==
    \A p \in DOMAIN passes :
        /\ \A i \in DOMAIN passes[p].new :
              getProductKey(passes[p].new[i].url) \notin passes[p].earlier
        /\ \A x \in passes[p].sent : getProductKey(x[2]) \notin passes[p].earlier

\* C8: when a pass ends whose scrape succeeded and during which the store was
\* reachable, the stored history holds the key of every scraped product.
C8_Original ==
    [][\A p \in DOMAIN passes :
          (/\ p \in DOMAIN passes'
           /\ passes[p].pc # "done"
           /\ passes'[p].pc = "done"
           /\ passes'[p].scrapeOk
           /\ ~passes'[p].storeFail)
          => KeysOf(passes'[p].all) \subseteq StoredKeys(products')]_vars

NothingNotified(r) ==
    /\ r.sent = {}
    /\ r.pc = "done" => (r.result.newProducts = 0 /\ r.result.notifiedUsers = 0)

\* C9 as stated: a pass during which the store is not initialised or any store
\* call throws sends no notification and returns newProducts = 0 and
\* notifiedUsers = 0.
C9_Original ==
    \A p \in DOMAIN passes : passes[p].storeFail => NothingNotified(passes[p])

\* C9 amended: a pass during which the store is not initialised or the history
\* lookup (getProductHistory) throws sends no notification and returns
\* newProducts = 0 and notifiedUsers = 0; and every pass that ends, whichever
\* call threw, ends by returning a result.
C9_LookupUnavailable ==
    \A p \in DOMAIN passes :
        /\ passes[p].lookupFail => NothingNotified(passes[p])
        /\ passes[p].pc = "done" =>
              passes[p].result \in [totalProducts : Nat, newProducts : Nat,
                                    totalNewMatches : Nat, notifiedUsers : Nat]

\* the history lookup threw in a pass that had scraped products, and the pass
\* has returned
C9_Witness ==
    \E p \in DOMAIN passes :
        /\ passes[p].pc = "done"
        /\ initialized
        /\ passes[p].lookupFail
        /\ passes[p].scrapeOk
        /\ passes[p].all # <<>>
\* C11: a failure in one active user's notification flow (fetching the user's
\* rules, formatting, sending, recording) does not abort the pass: when the
\* pass ends, every later active user has been evaluated too.
C11_Original ==
    \A p \in DOMAIN passes :
        passes[p].pc = "done" => passes[p].ui >= Len(passes[p].users)

\* C12: a pass whose scrape step failed ends with zero products and zero new
\* products, sends no notification, and none of its steps adds, modifies or
\* removes a record of the stored history.
C12_ScrapeFailure ==
    /\ [](\A p \in DOMAIN passes :
             (passes[p].pc # "scrape" /\ ~passes[p].scrapeOk) =>
                 /\ passes[p].sent = {}
                 /\ passes[p].new = <<>>
                 /\ passes[p].pc = "done" =>
                       /\ passes[p].result.totalProducts = 0
                       /\ passes[p].result.newProducts = 0
                       /\ passes[p].result.notifiedUsers = 0)
    /\ [][\A p \in DOMAIN passes :
             (/\ p \in DOMAIN passes'
              /\ passes'[p] # passes[p]
              /\ ~passes'[p].scrapeOk)
             => products' = products]_vars

\* a pass whose scrape failed has returned, with a store that is initialised
\* and holds a history
C12_Witness ==
    \E p \in DOMAIN passes :
        /\ passes[p].pc = "done"
        /\ ~passes[p].scrapeOk
        /\ ~passes[p].storeFail
        /\ initialized
        /\ products # EmptyStore

(***************************************************************************)
(* SpecBoot: the process from construction on, as long as no request has   *)
(* been received (init, the restart it may perform, the interval).         *)
(***************************************************************************)
NextBoot ==
    \/ \E ready \in BOOLEAN : Boot(ready)
    \/ \E c \in DOMAIN starts : StartSaved(c)
    \/ \E c \in DOMAIN starts : StartSaveThrows(c)
    \/ \E c \in DOMAIN starts : StartArm(c)
    \/ \E t \in timers : Tick(t)
    \/ \E p \in DOMAIN passes : TickReturn(p)
    \/ \E p \in DOMAIN passes : PassScrape(p)
    \/ \E p \in DOMAIN passes : PassScrapeThrows(p)
    \/ \E p \in DOMAIN passes : PassDetect(p)
    \/ \E p \in DOMAIN passes : PassUsers(p)
    \/ \E p \in DOMAIN passes : PassRules(p)
    \/ \E p \in DOMAIN passes : PassSend(p)
    \/ \E p \in DOMAIN passes : PassSave(p)
    \/ \E p \in DOMAIN passes : PassSaveThrows(p)

SpecBoot == Init /\ [][NextBoot]_vars

\* C13: once init has completed with a reachable store, and before any
\* request, the scheduler is Running (isTracking, exactly one timer armed) if
\* the persisted SystemState had isTracking = true, and Stopped (not tracking,
\* no timer, no pass run) if it had isTracking = false.
C13_RestartRecovery ==
    (phase = "serving" /\ initialized /\ nReqs = 0) =>
        IF systemState
        THEN isTracking /\ Cardinality(timers) = 1 /\ trackingInterval \in timers
        ELSE ~isTracking /\ timers = {} /\ nPasses = 0 /\ starts = <<>>

\* init has restarted tracking: the first pass has run and the timer is armed
C13_Witness ==
    /\ phase = "serving" /\ initialized /\ nReqs = 0
    /\ systemState /\ isTracking
    /\ timers = {1}
    /\ nPasses >= 1

(***************************************************************************)
(* Claims about the order of the steps of a start (Spec)                   *)
(***************************************************************************)
\* this step begins the first pass of the start c
BeginsFirstPass(c) ==
    /\ c \in DOMAIN starts'
    /\ starts'[c].pc = "pass"
    /\ (c \in DOMAIN starts => starts[c].pc # "pass")

\* this step arms a timer, and does so for a start whose first pass has returned
ArmsAfterFirstPass ==
    (~(timers' \subseteq timers)) =>
        \E c \in DOMAIN starts :
            /\ starts[c].pc = "pass"
            /\ passes[starts[c].pass].pc = "done"
            /\ c \notin DOMAIN starts'

\* a tick runs one pass
TickRunsPass ==
    (nTicks' = nTicks + 1) =>
        /\ nPasses' = nPasses + 1
        /\ passes'[nPasses'].pc = "scrape"

\* C14 as stated: isTracking = true is persisted to SystemState before the
\* first pass of an accepted start begins, the first pass completes before the
\* timer is armed, and every tick runs one pass.
C14_Original ==
    [][/\ \A c \in DOMAIN starts' : BeginsFirstPass(c) => systemState'
       /\ ArmsAfterFirstPass
       /\ TickRunsPass]_vars

\* C14 amended: when the store is initialised, isTracking = true is persisted
\* to SystemState before the first pass of an accepted start begins (with the
\* store not initialised nothing is persisted); in both cases the first pass
\* completes before the timer is armed, and every tick runs one pass.
C14_StartOrder ==
    [][/\ \A c \in DOMAIN starts' :
             (BeginsFirstPass(c) /\ initialized) => systemState'
       /\ \A c \in DOMAIN starts' :
             (BeginsFirstPass(c) /\ ~initialized) => systemState' = systemState
       /\ ArmsAfterFirstPass
       /\ TickRunsPass]_vars

\* a start request was accepted with the store initialised, its first pass
\* has run, the timer is armed and a tick has run a second pass
C14_Witness ==
    /\ initialized /\ systemState /\ isTracking
    /\ nReqs >= 1
    /\ timers # {}
    /\ nTicks >= 1
    /\ nPasses >= 2

(***************************************************************************)
(* Claims about the matches of a user (SpecPass)                           *)
(***************************************************************************)
\* the names of the user's enabled rules whose filters the product satisfies
RuleNamesFor(u, product) ==
    LET sel == SelectSeq(getUserTrackingRules(u),
                         LAMBDA r : matchesFilters(product, r.filters))
    IN  [i \in DOMAIN sel |-> sel[i].name]

\* C15: the list of matches built for a user holds every matched new product
\* exactly once (no two entries share a ProductKey), and each entry carries
\* exactly the names of the user's enabled rules the product satisfies, in the
\* order of the rules.
C15_Original ==
    \A p \in DOMAIN passes :
        passes[p].pc = "send" =>
            LET m == passes[p].matches
                u == passes[p].users[passes[p].ui]
            IN  /\ \A i, j \in DOMAIN m :
                      i # j => getProductKey(m[i].product.url)
                                  # getProductKey(m[j].product.url)
                /\ \A i \in DOMAIN m :
                      m[i].matchingRules = RuleNamesFor(u, m[i].product)
                /\ \A k \in DOMAIN passes[p].new :
                      RuleNamesFor(u, passes[p].new[k]) # <<>> =>
                          \E i \in DOMAIN m : m[i].product = passes[p].new[k]

(***************************************************************************)
(* SpecBatch: formatNewProductMessage / createBatchMessages applied to a   *)
(* list of matches, one product (one await of shortenUrl) per step.  A     *)
(* message is its batch header and its product entries.                    *)
(***************************************************************************)
\* variant: the sequence number restarts in every batch
globalIndexPerBatch(i, j) == j + 1

\* const globalIndex = i + j + 1
globalIndex(i, j) == i + j + 1

InitBatch ==
    /\ Constructed
    /\ systemState = FALSE
    /\ products = EmptyStore
    /\ savedKeys = {}
    /\ fin \in {[matches |-> [k \in 1..n |-> k]] : n \in 0..MaxMatches}
    /\ fout = [done |-> FALSE, i |-> 0, j |-> 0, message |-> <<>>, messages |-> <<>>]

\* if (newProducts.length === 0) return null
FormatNone ==
    /\ ~fout.done
    /\ Len(fin.matches) = 0
    /\ fout' = [fout EXCEPT !.done = TRUE, !.messages = NULL]
    /\ UNCHANGED <<appVars, systemState, products, savedKeys, svcVars, fin>>

\* one iteration of for (j ...): the entry of batch[j]; after the last entry
\* of the batch messages.push(message), i += productsPerMessage, and the
\* return once i >= newProducts.length
BatchProduct ==
    /\ ~fout.done
    /\ fout.i < Len(fin.matches)
    /\ LET batchNumber == (fout.i \div productsPerMessage) + 1
           batch == batchOf(fin.matches, batchNumber)
           entry == [globalIndex |-> globalIndex(fout.i, fout.j),
                     product |-> batch[fout.j + 1]]
           message == Append(fout.message, entry)
       IN  IF fout.j + 1 < Len(batch)
           THEN fout' = [fout EXCEPT !.j = @ + 1, !.message = message]
           ELSE fout' = [done |-> fout.i + productsPerMessage >= Len(fin.matches),
                         i |-> fout.i + productsPerMessage,
                         j |-> 0,
                         message |-> <<>>,
                         messages |-> Append(fout.messages,
                             [batchNumber |-> batchNumber,
                              totalBatches |-> totalBatches(Len(fin.matches)),
                              entries |-> message])]
    /\ UNCHANGED <<appVars, systemState, products, savedKeys, svcVars, fin>>

NextBatch ==
    \/ FormatNone
    \/ BatchProduct

SpecBatch == InitBatch /\ [][NextBatch]_vars

RECURSIVE ConcatEntries(_, _)
ConcatEntries(messages, b) ==
    IF b > Len(messages) THEN <<>>
    ELSE messages[b].entries \o ConcatEntries(messages, b + 1)

\* C16: createBatchMessages on N >= 1 matches returns ceil(N/10) messages;
\* every message but the last lists exactly 10 products (the last between 1
\* and 10); the products appear in input order; and the sequence numbers,
\* read across the messages in order, are exactly 1..N.
C16_Batches ==
    (fout.done /\ Len(fin.matches) >= 1) =>
        LET N == Len(fin.matches)
            ms == fout.messages
        IN  /\ Len(ms) * 10 >= N
            /\ (Len(ms) - 1) * 10 < N
            /\ \A b \in DOMAIN ms :
                  /\ b < Len(ms) => Len(ms[b].entries) = 10
                  /\ Len(ms[b].entries) \in 1..10
                  /\ ms[b].batchNumber = b
                  /\ ms[b].totalBatches = Len(ms)
            /\ ConcatEntries(ms, 1) =
                  [k \in 1..N |-> [globalIndex |-> k, product |-> fin.matches[k]]]

\* 21 matches: three messages, of 10, 10 and 1 products
C16_Witness ==
    /\ fout.done
    /\ Len(fin.matches) = 21
    /\ Len(fout.messages) = 3
    /\ Len(fout.messages[3].entries) = 1
    /\ fout.messages[3].entries[1].globalIndex = 21

(***************************************************************************)
(* SpecFilter: AppleTracker.filterProducts applied to a product list and a *)
(* FilterSpec, and to the FilterSpec with one more field.                  *)
(***************************************************************************)
Item(productType, chip, color, memory, storage, price) ==
    [url   |-> UC,
     price |-> price,
     specs |-> [productType |-> productType, chip |-> chip, color |-> color,
                memory |-> memory, storage |-> storage]]

\* products as scrapeProducts / parseSpecs yield them: a spec that was not
\* recognised is null (memory, storage: the empty string), a price that was
\* not found is the text "價格未找到", which holds no digit
FilterItems ==
    { Item("MacBook Air", "M4", "silver", <<"1", "6", "G", "B">>,
           <<"5", "1", "2", "G", "B">>, <<"N", "T", "$", "3", "0">>),
      Item("MacBook Pro", NULL, NULL, <<>>,
           <<"2", "T", "B">>, <<"N", "T", "$", "9", "0">>),
      Item("MacBook Air", "M4", NULL, <<"8", "G", "B">>,
           <<>>, <<"x">>),
      Item("Mac mini", "M2", "silver", <<"3", "2", "G", "B">>,
           <<"1", "T", "B">>, <<"N", "T", "$", "3", "5">>) }

FilterSpecs ==
    [productType : {NULL, "MacBook Air"}, chip : {NULL, "M4"}, color : {NULL, "silver"},
     minMemory : {0, 16}, maxPrice : {0, 35}, minStorage : {<<>>, <<"1", "T", "B">>}]

\* one more field, with its value
MoreFields ==
    {<<"productType", "MacBook Pro">>, <<"chip", "M2">>, <<"color", "silver">>,
     <<"minMemory", 32>>, <<"maxPrice", 30>>, <<"minStorage", <<"2", "T", "B">>>>}

InitFilter ==
    /\ Constructed
    /\ systemState = FALSE
    /\ products = EmptyStore
    /\ savedKeys = {}
    /\ fin \in {x \in [products : SeqsUpTo(FilterItems, MaxList),
                        filters : FilterSpecs, more : MoreFields] :
                    x.filters[x.more[1]] = NoFilter[x.more[1]]}
    /\ fout = NoOut

ApplyFilter ==
    /\ ~fout.done
    /\ fout' = [done     |-> TRUE,
                products |-> fin.products,
                result   |-> filterProducts(fin.products, fin.filters),
                withMore |-> filterProducts(fin.products,
                                [fin.filters EXCEPT ![fin.more[1]] = fin.more[2]])]
    /\ UNCHANGED <<appVars, systemState, products, savedKeys, svcVars, fin>>

NextFilter == ApplyFilter

SpecFilter == InitFilter /\ [][NextFilter]_vars

RECURSIVE RunEnd(_, _)
RunEnd(s, i) == IF i + 1 <= Len(s) /\ s[i + 1] \in Digits THEN RunEnd(s, i + 1) ELSE i

UnitAt(s, e) ==
    IF e + 2 <= Len(s) /\ s[e + 2] = "B" /\ s[e + 1] \in {"G", "T"} THEN s[e + 1] ELSE NULL

\* AppleRefurbishedScraper.parseStorageSize, for sizes without a decimal part:
\* if (!storage) return 0; match /(\d+)(GB|TB)/; TB counts 1000
parseStorageSize(storage) ==
    LET at == {i \in DOMAIN storage :
                  storage[i] \in Digits /\ UnitAt(storage, RunEnd(storage, i)) # NULL}
    IN  IF at = {} THEN 0
        ELSE LET i == SetMin(at)
                 e == RunEnd(storage, i)
                 size == LeadingInt(SubSeq(storage, i, e), 1, 0)
             IN  IF UnitAt(storage, e) = "T" THEN size * 1000 ELSE size

\* C17: with minStorage in the filter, the rule filter of the tracking pass
\* keeps a product only if its specs.storage in GB (1 TB = 1000 GB, missing
\* or unparseable storage 0) is >= minStorage in GB.
C17_Original ==
    (fout.done /\ fin.filters.minStorage # <<>>) =>
        \A i \in DOMAIN fout.result :
            parseStorageSize(fout.result[i].specs.storage)
                >= parseStorageSize(fin.filters.minStorage)

\* C18: with maxPrice in the filter, the rule filter of the tracking pass keeps
\* a product only if its price, non-digits stripped, parses to an integer
\* <= maxPrice; a product whose price holds no digit is excluded.
C18_Original ==
    (fout.done /\ fin.filters.maxPrice # 0) =>
        \A i \in DOMAIN fout.result :
            LET d == DigitsOnly(fout.result[i].price)
            IN  d # <<>> /\ LeadingInt(d, 1, 0) <= fin.filters.maxPrice

\* what C19 requires of a product, for the fields productType, chip, color
\* and minMemory
Satisfies(product, filters) ==
    /\ filters.productType # NULL => product.specs.productType = filters.productType
    /\ filters.chip # NULL => product.specs.chip = filters.chip
    /\ filters.color # NULL => product.specs.color = filters.color
    /\ filters.minMemory # 0 =>
          /\ product.specs.memory # <<>>
          /\ product.specs.memory[1] \in Digits
          /\ LeadingInt(product.specs.memory, 1, 0) >= filters.minMemory

\* C19: for a filter whose present fields are among productType, chip, color
\* and minMemory, filterProducts leaves its input as it was and returns, in
\* input order, exactly the products that satisfy every present field (a null
\* spec field fails a present filter; a null or non-numeric memory fails
\* minMemory); the empty filter returns all products.
C19_FilterExact ==
    (fout.done /\ fin.filters.maxPrice = 0 /\ fin.filters.minStorage = <<>>) =>
        /\ fout.result = SelectSeq(fin.products, LAMBDA q : Satisfies(q, fin.filters))
        /\ fout.products = fin.products
        /\ fin.filters = NoFilter => fout.result = fin.products

\* minMemory 16 alone: the product without memory and the 8GB one are
\* dropped, the 32GB one is kept
C19_Witness ==
    /\ fout.done
    /\ fin.filters = [NoFilter EXCEPT !.minMemory = 16]
    /\ Len(fin.products) = 2
    /\ fin.products[1].specs.memory \in {<<>>, <<"8", "G", "B">>}
    /\ fin.products[2].specs.memory = <<"3", "2", "G", "B">>
    /\ fout.result = <<fin.products[2]>>

\* a is b with some of its elements left out
RECURSIVE IsSubList(_, _)
IsSubList(a, b) ==
    IF a = <<>> THEN TRUE
    ELSE IF b = <<>> THEN FALSE
    ELSE IF a[1] = b[1] THEN IsSubList(Tail(a), Tail(b))
    ELSE IsSubList(a, Tail(b))

\* C20: for every product list P and FilterSpec F, and F' got from F by adding
\* one more field, filterProducts(P, F') is a sub-list of filterProducts(P, F).
C20_Monotone ==
    fout.done => IsSubList(fout.withMore, fout.result)

\* the added field drops a product that the filter kept
C20_Witness ==
    /\ fout.done
    /\ fin.filters # NoFilter
    /\ fout.withMore # <<>>
    /\ Len(fout.withMore) < Len(fout.result)

(***************************************************************************)
(* Spec parser (AppleTracker.parseSpecs).  A text is a sequence of its     *)
(* characters; a character outside ASCII is written as one token (its      *)
(* reading), so that it still counts as one character of the text.         *)
(***************************************************************************)
\* the literals of parseSpecs: of its includes tests, of its patterns and of
\* its replace calls
Txt ==
    [Nbsp          |-> <<"nbsp">>,
     MacBookAir    |-> <<"M", "a", "c", "B", "o", "o", "k", " ", "A", "i", "r">>,
     MacBookPro    |-> <<"M", "a", "c", "B", "o", "o", "k", " ", "P", "r", "o">>,
     MacStudio     |-> <<"M", "a", "c", " ", "S", "t", "u", "d", "i", "o">>,
     MacMini       |-> <<"M", "a", "c", " ", "m", "i", "n", "i">>,
     IMac          |-> <<"i", "M", "a", "c">>,
     IPadPro       |-> <<"i", "P", "a", "d", " ", "P", "r", "o">>,
     IPadAir       |-> <<"i", "P", "a", "d", " ", "A", "i", "r">>,
     IPadMini      |-> <<"i", "P", "a", "d", " ", "m", "i", "n", "i">>,
     IPad          |-> <<"i", "P", "a", "d">>,
     AppleTV       |-> <<"A", "p", "p", "l", "e", " ", "T", "V">>,
     Apple         |-> <<"A", "p", "p", "l", "e", " ">>,
     Pro           |-> <<"P", "r", "o">>,
     Max           |-> <<"M", "a", "x">>,
     Ultra         |-> <<"U", "l", "t", "r", "a">>,
     Inch          |-> <<"cun4">>,
     Chip          |-> <<"jing", "pian">>,
     UnifiedMemory |-> <<"tong", "yi", "ji", "yi4", "ti">>,
     Memory        |-> <<"ji", "yi4", "ti">>,
     GB            |-> <<"G", "B">>,
     TB            |-> <<"T", "B">>,
     SSD           |-> <<"S", "S", "D">>,
     Storage       |-> <<"chu", "cun2">>]

\* const colors = [...]
ColorTexts ==
    << <<"yin", "se">>,
       <<"tai", "kong", "hui", "se">>,
       <<"tai", "kong", "hei", "se">>,
       <<"xing", "guang", "se">>,
       <<"wu", "ye", "se">>,
       <<"tian", "lan", "se">> >>

\* the literal lit stands in s at position k
LitAt(s, k, lit) ==
    /\ k >= 1
    /\ k + Len(lit) - 1 <= Len(s)
    /\ SubSeq(s, k, k + Len(lit) - 1) = lit

\* s.includes(lit)
Includes(s, lit) == \E k \in 1..Len(s) : LitAt(s, k, lit)

\* \s*: the position after the white space that starts at k
RECURSIVE SkipWs(_, _)
SkipWs(s, k) == IF k <= Len(s) /\ s[k] = " " THEN SkipWs(s, k + 1) ELSE k

\* text.replace(/ /g, " ")
Normalize(text) == [i \in DOMAIN text |-> IF <<text[i]>> = Txt.Nbsp THEN " " ELSE text[i]]

\* s.replace(lit, ""): the first occurrence only
RemoveFirst(s, lit) ==
    LET at == {k \in 1..Len(s) : LitAt(s, k, lit)}
    IN  IF at = {} THEN s
        ELSE SubSeq(s, 1, SetMin(at) - 1) \o SubSeq(s, SetMin(at) + Len(lit), Len(s))

\* s.trim()
Trim(s) ==
    LET ink == {i \in DOMAIN s : s[i] # " "}
    IN  IF ink = {} THEN <<>> ELSE SubSeq(s, SetMin(ink), SetMax(ink))

\* what follows the group (\d+) in a pattern, tried at position k of s
Follows(pattern, s, k) ==
    CASE pattern = "(d+)GB.*SSD" ->
            LitAt(s, k, Txt.GB) /\ \E j \in (k + 2)..Len(s) : LitAt(s, j, Txt.SSD)
      [] pattern = "(d+)GBs*storage" ->
            LitAt(s, k, Txt.GB) /\ LitAt(s, SkipWs(s, k + 2), Txt.Storage)
      [] pattern = "(d+)GBs*unified memory" ->
            LitAt(s, k, Txt.GB) /\ LitAt(s, SkipWs(s, k + 2), Txt.UnifiedMemory)
      [] pattern = "(d+)GBs*memory" ->
            LitAt(s, k, Txt.GB) /\ LitAt(s, SkipWs(s, k + 2), Txt.Memory)
      [] pattern = "(d+)s*GB" -> LitAt(s, SkipWs(s, k), Txt.GB)
      [] pattern = "(d+)s*inch" -> LitAt(s, SkipWs(s, k), Txt.Inch)

\* s.match(pattern)[1] for a pattern /(\d+).../ whose rest cannot begin with a
\* digit: the leftmost run of digits after which the rest matches; <<>>
\* without a match
DigitsBefore(s, pattern) ==
    LET at == {i \in DOMAIN s : s[i] \in Digits /\ Follows(pattern, s, RunEnd(s, i) + 1)}
    IN  IF at = {} THEN <<>> ELSE SubSeq(s, SetMin(at), RunEnd(s, SetMin(at)))

\* s.match(/(\d+(?:\.\d+)?)TB/)[1]
MatchTB(s) ==
    LET TBEnd(i) ==
            LET e == RunEnd(s, i)
            IN  IF /\ e + 2 <= Len(s) /\ s[e + 1] = "." /\ s[e + 2] \in Digits
                   /\ LitAt(s, RunEnd(s, e + 2) + 1, Txt.TB)
                THEN RunEnd(s, e + 2)
                ELSE IF LitAt(s, e + 1, Txt.TB) THEN e ELSE 0
        at == {i \in DOMAIN s : s[i] \in Digits /\ TBEnd(i) # 0}
    IN  IF at = {} THEN <<>> ELSE SubSeq(s, SetMin(at), TBEnd(SetMin(at)))

\* a.match(p) || b.match(p), for the captures
FirstOf(a, b) == IF a # <<>> THEN a ELSE b

\* the ends that (M\d+(?:\s+(?:Pro|Max|Ultra))?) begun at i can have, the
\* longer one first; <<>> when no M\d+ begins at i
ChipEnds(s, i) ==
    IF ~(s[i] = "M" /\ i + 1 <= Len(s) /\ s[i + 1] \in Digits) THEN <<>>
    ELSE LET e == RunEnd(s, i + 1)
             k == SkipWs(s, e + 1)
             suffix == IF k = e + 1 THEN 0
                       ELSE IF LitAt(s, k, Txt.Ultra) THEN k + 4
                       ELSE IF LitAt(s, k, Txt.Pro) \/ LitAt(s, k, Txt.Max) THEN k + 2
                       ELSE 0
         IN  IF suffix # 0 THEN <<suffix, e>> ELSE <<e>>

\* s.match(chipPatterns[p - 1])[1]: pattern 1 has "Apple " before the group,
\* pattern 2 has \s* and the chip word after it, pattern 3 has neither
MatchChip(s, p) ==
    LET Before(i) == p = 1 => LitAt(s, i - Len(Txt.Apple), Txt.Apple)
        After(k) == p = 2 => LitAt(s, SkipWs(s, k), Txt.Chip)
        Ends(i) == SelectSeq(ChipEnds(s, i), LAMBDA e : After(e + 1))
        at == {i \in DOMAIN s : Before(i) /\ Ends(i) # <<>>}
    IN  IF at = {} THEN <<>> ELSE SubSeq(s, SetMin(at), Ends(SetMin(at))[1])

\* the chipPatterns, in order, each tried on the name and then the
\* description; the first pattern that matches either ends the loop
chipMatch(name, description) ==
    LET try(p) == FirstOf(MatchChip(name, p), MatchChip(description, p))
    IN  IF try(1) # <<>> THEN try(1)
        ELSE IF try(2) # <<>> THEN try(2)
        ELSE try(3)

\* the memoryPatterns, in order, each tried on the description and then the
\* name
memoryMatch(name, description) ==
    LET try(p) == FirstOf(DigitsBefore(description, p), DigitsBefore(name, p))
    IN  IF try("(d+)GBs*unified memory") # <<>> THEN try("(d+)GBs*unified memory")
        ELSE IF try("(d+)GBs*memory") # <<>> THEN try("(d+)GBs*memory")
        ELSE try("(d+)s*GB")

\* the storagePatterns, in order, each tried on the description and then the
\* name; the capture gets "TB" for the first pattern and "GB" for the others
storageOf(name, description) ==
    LET try(p) == FirstOf(DigitsBefore(description, p), DigitsBefore(name, p))
        tb == FirstOf(MatchTB(description), MatchTB(name))
    IN  IF tb # <<>> THEN tb \o Txt.TB
        ELSE IF try("(d+)GB.*SSD") # <<>> THEN try("(d+)GB.*SSD") \o Txt.GB
        ELSE IF try("(d+)GBs*storage") # <<>> THEN try("(d+)GBs*storage") \o Txt.GB
        ELSE <<>>

\* the if / else if chain on normalizedName.includes(...)
productTypeOf(name) ==
    IF Includes(name, Txt.MacBookAir) THEN "MacBook Air"
    ELSE IF Includes(name, Txt.MacBookPro) THEN "MacBook Pro"
    ELSE IF Includes(name, Txt.MacStudio) THEN "Mac Studio"
    ELSE IF Includes(name, Txt.MacMini) THEN "Mac mini"
    ELSE IF Includes(name, Txt.IMac) THEN "iMac"
    ELSE IF Includes(name, Txt.IPadPro) THEN "iPad Pro"
    ELSE IF Includes(name, Txt.IPadAir) THEN "iPad Air"
    ELSE IF Includes(name, Txt.IPadMini) THEN "iPad mini"
    ELSE IF Includes(name, Txt.IPad) THEN "iPad"
    ELSE IF Includes(name, Txt.AppleTV) THEN "Apple TV"
    ELSE NULL

\* for (const color of colors) if (normalizedName.includes(color)) ... break
colorOf(name) ==
    LET hit == SelectSeq(ColorTexts, LAMBDA c : Includes(name, c))
    IN  IF hit = <<>> THEN <<>> ELSE hit[1]

\* parseSpecs(name, description, category); a field that is null is NULL
\* (productType) or the empty text (the others)
parseSpecs(name, description, category) ==
    LET normalizedName == Normalize(name)
        normalizedDescription == Normalize(description)
        size == DigitsBefore(normalizedName, "(d+)s*inch")
        chip == chipMatch(normalizedName, normalizedDescription)
        memory == memoryMatch(normalizedName, normalizedDescription)
    IN  [screenSize  |-> IF size = <<>> THEN <<>> ELSE size \o Txt.Inch,
         chip        |-> Trim(RemoveFirst(RemoveFirst(chip, Txt.Apple), Txt.Chip)),
         memory      |-> IF memory = <<>> THEN <<>> ELSE memory \o Txt.GB,
         storage     |-> storageOf(normalizedName, normalizedDescription),
         color       |-> colorOf(normalizedName),
         productType |-> productTypeOf(normalizedName),
         category    |-> IF category = NULL THEN "Other" ELSE category]

(***************************************************************************)
(* SpecParse: parseSpecs applied to names and descriptions put together    *)
(* from the parts the storefront's listings are made of                    *)
(***************************************************************************)
\* the names: a product type, then a screen size, a chip, a memory and a
\* storage, each of which a name may lack
Names ==
    LET types == {<<"A", "p", "p", "l", "e", " ", "M", "a", "c", "B", "o",
                    "o", "k", " ", "A", "i", "r", " ">>,
                  <<"A", "p", "p", "l", "e", " ", "i", "P", "a", "d", " ",
                    "P", "r", "o", " ">>,
                  <<"M", "a", "c", " ", "m", "i", "n", "i", " ">>}
        sizes == {<<"1", "3", "cun4", " ">>,
                  <<"1", "3", "nbsp", "cun4", " ">>,
                  <<>>}
        chips == {<<"M", "4", "jing", "pian", " ", "8", "he", "xin", "C",
                    "P", "U", " ">>,
                  <<"A", "p", "p", "l", "e", " ", "M", "2", " ", "P", "r",
                    "o", " ">>,
                  <<>>}
        memories == {<<"1", "6", "G", "B", "tong", "yi", "ji", "yi4", "ti">>,
                     <<>>}
        storages == {<<" ", "2", "5", "6", "G", "B", " ", "S", "S", "D">>,
                     <<>>}
    IN  {t \o s \o c \o m \o g :
            <<t, s, c, m, g>> \in types \X sizes \X chips \X memories \X storages}

\* the descriptions
Descriptions ==
    {<<"1", "6", "G", "B", "tong", "yi", "ji", "yi4", "ti", " ", "2", "5",
       "6", "G", "B", " ", "S", "S", "D">>,
     <<"2", "5", "6", "G", "B", " ", "S", "S", "D">>,
     <<"1", "T", "B", " ", "S", "S", "D">>,
     <<"8", "G", "B", " ", "ji", "yi4", "ti", " ", "1", ".", "5", "T", "B">>,
     <<"5", "1", "2", "G", "B", " ", "chu", "cun2">>,
     <<>>}

ScenarioName ==
    <<"A", "p", "p", "l", "e", " ", "M", "a", "c", "B", "o", "o", "k", " ",
      "A", "i", "r", " ", "1", "3", "cun4", " ", "M", "4", "jing", "pian",
      " ", "8", "he", "xin", "C", "P", "U", " ", "1", "6", "G", "B", "tong",
      "yi", "ji", "yi4", "ti">>

ScenarioDescription == <<"1", "6", "G", "B", "tong", "yi", "ji", "yi4", "ti",
                         " ", "2", "5", "6", "G", "B", " ", "S", "S", "D">>

\* scrapeProducts hands parseSpecs the name as the description too
\* (description: name); every other description is a caller's
InitParse ==
    /\ Constructed
    /\ systemState = FALSE
    /\ products = EmptyStore
    /\ savedKeys = {}
    /\ fin \in {x \in [name : Names, description : Descriptions \cup Names,
                       category : {NULL, "Mac"}] :
                   x.description \in Descriptions \cup {x.name}}
    /\ fout = NoOut

ApplyParse ==
    /\ ~fout.done
    /\ fout' = [done  |-> TRUE,
                specs |-> parseSpecs(fin.name, fin.description, fin.category)]
    /\ UNCHANGED <<appVars, systemState, products, savedKeys, svcVars, fin>>

NextParse == ApplyParse

SpecParse == InitParse /\ [][NextParse]_vars

\* the "<N>GB" tokens of s that the SSD marker follows immediately (after
\* white space at most)
GBBeforeSSD(s) ==
    {SubSeq(s, i, RunEnd(s, i) + 2) : i \in {j \in DOMAIN s :
        /\ s[j] \in Digits
        /\ (j = 1 \/ s[j - 1] \notin Digits)
        /\ LitAt(s, RunEnd(s, j) + 1, Txt.GB)
        /\ LitAt(s, SkipWs(s, RunEnd(s, j) + 3), Txt.SSD)}}

\* C21: once parseSpecs has run on a description that has no TB size and has
\* a "<N>GB" token immediately followed by the SSD marker, the storage is that
\* token; for the name "Apple MacBook Air 13-inch M4 chip 8-core CPU 16GB
\* unified memory" and the description "16GB unified memory 256GB SSD" the
\* specs are MacBook Air, 13 inch, M4, 16GB and 256GB
C21_Original ==
    fout.done =>
        /\ (MatchTB(Normalize(fin.description)) = <<>>
              /\ GBBeforeSSD(Normalize(fin.description)) # {})
           => fout.specs.storage \in GBBeforeSSD(Normalize(fin.description))
        /\ (fin.name = ScenarioName /\ fin.description = ScenarioDescription)
           => /\ fout.specs.productType = "MacBook Air"
              /\ fout.specs.screenSize = <<"1", "3">> \o Txt.Inch
              /\ fout.specs.chip = <<"M", "4">>
              /\ fout.specs.memory = <<"1", "6">> \o Txt.GB
              /\ fout.specs.storage = <<"2", "5", "6">> \o Txt.GB

(***************************************************************************)
(* SpecRules: the tracking rules of one user. The documents of the         *)
(* subcollection are db.trackingRules (document id -> data); config saves, *)
(* rule deletions and the rule lookup of a tracking pass run await by      *)
(* await, interleaved                                                      *)
(***************************************************************************)
MaxRuleReqs == 2
MaxRuleList == 2
MaxDocs == 4

\* the ids the store gives the documents it adds, in the order of a query
DocIds == <<"d1", "d2", "d3", "d4", "d5">>

\* an id a client made up: no document has it
ClientId == "x"

\* the rules a client submits; id = NULL is a rule sent without an id
ClientRules ==
    {[id |-> NULL, name |-> "a", enabled |-> TRUE, filters |-> NoFilter],
     [id |-> NULL, name |-> "b", enabled |-> FALSE, filters |-> NoFilter],
     [id |-> DocIds[1], name |-> "a", enabled |-> TRUE, filters |-> NoFilter],
     [id |-> DocIds[1], name |-> "a", enabled |-> FALSE, filters |-> NoFilter],
     [id |-> ClientId, name |-> "b", enabled |-> TRUE, filters |-> NoFilter]}

RuleLists == SeqsUpTo(ClientRules, MaxRuleList)

\* the stored rules the specification starts from (data without an id field)
StoredRules ==
    {<<>>,
     <<[id |-> NULL, name |-> "a", enabled |-> TRUE, filters |-> NoFilter]>>,
     <<[id |-> NULL, name |-> "a", enabled |-> FALSE, filters |-> NoFilter]>>,
     <<[id |-> NULL, name |-> "a", enabled |-> TRUE, filters |-> NoFilter],
       [id |-> NULL, name |-> "b", enabled |-> FALSE, filters |-> NoFilter]>>}

\* the document ids of a collection, in the order a query returns them
SortedIds(ids) == SelectSeq(DocIds, LAMBDA d : d \in ids)

\* snapshot.docs.map(doc => ({ id: doc.id, ...doc.data() })): an id field of
\* the data comes after doc.id and replaces it
docObject(docs, d) == IF docs[d].id = NULL THEN [docs[d] EXCEPT !.id = d] ELSE docs[d]

\* getUserTrackingRules on the documents docs
rulesOf(docs) ==
    LET ids == SortedIds(DOMAIN docs)
    IN  whereEnabled([k \in DOMAIN ids |-> docObject(docs, ids[k])])

\* .doc(ruleId).delete(): deleting a document that is not there does nothing
deleteTrackingRule(docs, ruleId) == Without(docs, ruleId)

\* .doc(ruleId).update({...updates}): the fields of updates replace the stored
\* ones; a field that is absent (id = NULL) is left as stored
updateTrackingRule(docs, ruleId, updates) ==
    [docs EXCEPT ![ruleId] = [updates EXCEPT !.id = IF updates.id = NULL THEN @ ELSE updates.id]]

\* .add({...rule}): a new document under an id of the store's making
addTrackingRule(d, rule) ==
    [d EXCEPT !.trackingRules = [x \in DOMAIN @ \cup {DocIds[d.nextId]} |->
                                    IF x = DocIds[d.nextId] THEN rule ELSE @[x]],
              !.nextId = @ + 1]

IdsOf(list) == {list[k].id : k \in DOMAIN list}

\* the new products of the pass that looks the rules up
RulesNewProducts == <<Listing(UA)>>

NewReq(kind) ==
    [kind |-> kind, pc |-> "read", L |-> <<>>, existing |-> <<>>, i |-> 1, j |-> 1,
     target |-> NULL, matches |-> <<>>, stored |-> <<>>, after |-> <<>>]

\* documents that the config saves in flight may still add
PendingAdds ==
    LET Sum[k \in 0..Len(reqs)] ==
            IF k = 0 THEN 0
            ELSE Sum[k - 1] + IF reqs[k].pc \in {"read", "sync"} THEN Len(reqs[k].L) ELSE 0
    IN  Sum[Len(reqs)]

InitRules ==
    /\ phase = "serving"
    /\ initialized = TRUE
    /\ isTracking = FALSE
    /\ trackingInterval = 0
    /\ timers = {}
    /\ nTimers = 0
    /\ systemState = FALSE
    /\ products = EmptyStore
    /\ starts = <<>>
    /\ stops = <<>>
    /\ nReqs = 0
    /\ quiet = FALSE
    /\ passes = <<>>
    /\ nPasses = 0
    /\ nTicks = 0
    /\ seenKeys = {}
    /\ savedKeys = {}
    /\ fin = NoOut
    /\ fout = NoOut
    /\ \E st \in StoredRules :
          db = [trackingRules |-> [d \in {DocIds[k] : k \in DOMAIN st} |->
                                      st[CHOOSE k \in DOMAIN st : DocIds[k] = d]],
                nextId |-> Len(st) + 1]
    /\ reqs = <<>>

notSvcVars == <<appVars, systemState, products, savedKeys, fin, fout>>

\* POST /api/users/:userId/config arrives with trackingRules = L; its first
\* await past getOrCreateUser is getUserTrackingRules
PostConfig(L) ==
    /\ Len(reqs) < MaxRuleReqs
    /\ db.nextId + PendingAdds + Len(L) <= MaxDocs + 1
    /\ reqs' = Append(reqs, [NewReq("post") EXCEPT !.L = L])
    /\ UNCHANGED <<db, notSvcVars>>

\* the next existing rule, from i on, that the submitted list does not name
NextDelete(r) ==
    LET at == {k \in r.i..Len(r.existing) : r.existing[k].id \notin IdsOf(r.L)}
    IN  IF at = {} THEN 0 ELSE SetMin(at)

\* const existingRules = await getUserTrackingRules(userId)
PostRead(q) ==
    /\ reqs[q].kind = "post"
    /\ reqs[q].pc = "read"
    /\ reqs' = [reqs EXCEPT ![q] = [@ EXCEPT !.existing = rulesOf(db.trackingRules),
                                             !.pc = "sync"]]
    /\ UNCHANGED <<db, notSvcVars>>

\* res.json({ success: true }) once both loops are through
Responded(r) ==
    IF NextDelete(r) = 0 /\ r.j > Len(r.L) THEN [r EXCEPT !.pc = "ok"] ELSE r

\* for (const rule of existingRules) if (!newRuleIds.has(rule.id))
\*     await deleteTrackingRule(userId, rule.id)
PostDelete(q) ==
    LET r == reqs[q]
        k == NextDelete(r)
    IN  /\ r.kind = "post"
        /\ r.pc = "sync"
        /\ k # 0
        /\ db' = [db EXCEPT !.trackingRules = deleteTrackingRule(@, r.existing[k].id)]
        /\ reqs' = [reqs EXCEPT ![q] =
                      LET n == [r EXCEPT !.i = k + 1, !.target = r.existing[k].id]
                      IN  [Responded(n) EXCEPT !.after = db'.trackingRules]]
        /\ UNCHANGED notSvcVars

\* for (const rule of trackingRules) if (existingRuleIds.has(rule.id))
\*     await updateTrackingRule(userId, rule.id, rule)
PostUpdate(q) ==
    LET r == reqs[q]
        rule == r.L[r.j]
    IN  /\ r.kind = "post"
        /\ r.pc = "sync"
        /\ NextDelete(r) = 0
        /\ r.j <= Len(r.L)
        /\ rule.id \in IdsOf(r.existing)
        /\ rule.id \in DOMAIN db.trackingRules
        /\ db' = [db EXCEPT !.trackingRules = updateTrackingRule(@, rule.id, rule)]
        /\ reqs' = [reqs EXCEPT ![q] =
                      [Responded([r EXCEPT !.j = @ + 1, !.target = NULL])
                          EXCEPT !.after = db'.trackingRules]]
        /\ UNCHANGED notSvcVars

\* update() of a document that is not there rejects: catch, status 500
PostUpdateThrows(q) ==
    LET r == reqs[q]
        rule == r.L[r.j]
    IN  /\ r.kind = "post"
        /\ r.pc = "sync"
        /\ NextDelete(r) = 0
        /\ r.j <= Len(r.L)
        /\ rule.id \in IdsOf(r.existing)
        /\ rule.id \notin DOMAIN db.trackingRules
        /\ reqs' = [reqs EXCEPT ![q] = [r EXCEPT !.pc = "err", !.target = NULL]]
        /\ UNCHANGED <<db, notSvcVars>>

\* else await addTrackingRule(userId, rule)
PostAdd(q) ==
    LET r == reqs[q]
        rule == r.L[r.j]
    IN  /\ r.kind = "post"
        /\ r.pc = "sync"
        /\ NextDelete(r) = 0
        /\ r.j <= Len(r.L)
        /\ rule.id \notin IdsOf(r.existing)
        /\ db' = addTrackingRule(db, rule)
        /\ reqs' = [reqs EXCEPT ![q] =
                      [Responded([r EXCEPT !.j = @ + 1, !.target = NULL])
                          EXCEPT !.after = db'.trackingRules]]
        /\ UNCHANGED notSvcVars

\* a save with nothing to delete and nothing to write responds after the read
PostEmpty(q) ==
    LET r == reqs[q]
    IN  /\ r.kind = "post"
        /\ r.pc = "sync"
        /\ NextDelete(r) = 0
        /\ r.j > Len(r.L)
        /\ reqs' = [reqs EXCEPT ![q] = [r EXCEPT !.pc = "ok", !.target = NULL,
                                                 !.after = db.trackingRules]]
        /\ UNCHANGED <<db, notSvcVars>>

\* DELETE /api/users/:userId/rules/:ruleId
DeleteRule(ruleId) ==
    /\ Len(reqs) < MaxRuleReqs
    /\ db' = [db EXCEPT !.trackingRules = deleteTrackingRule(@, ruleId)]
    /\ reqs' = Append(reqs, [NewReq("delete") EXCEPT !.pc = "ok", !.target = ruleId])
    /\ UNCHANGED notSvcVars

\* the LINE command /delete n arrives: deleteRuleByNumber(userId, n)
DeleteCommand(n) ==
    /\ Len(reqs) < MaxRuleReqs
    /\ reqs' = Append(reqs, [NewReq("command") EXCEPT !.i = n])
    /\ UNCHANGED <<db, notSvcVars>>

\* const rules = await getUserTrackingRules(userId); no rule of that number:
\* the command answers without deleting
CommandRead(q) ==
    LET r == reqs[q]
        rules == rulesOf(db.trackingRules)
    IN  /\ r.kind = "command"
        /\ r.pc = "read"
        /\ reqs' = [reqs EXCEPT ![q] =
                      IF r.i > Len(rules) THEN [r EXCEPT !.pc = "ok"]
                      ELSE [r EXCEPT !.existing = rules, !.pc = "sync"]]
        /\ UNCHANGED <<db, notSvcVars>>

\* await deleteTrackingRule(userId, ruleToDelete.id)
CommandDelete(q) ==
    LET r == reqs[q]
    IN  /\ r.kind = "command"
        /\ r.pc = "sync"
        /\ db' = [db EXCEPT !.trackingRules = deleteTrackingRule(@, r.existing[r.i].id)]
        /\ reqs' = [reqs EXCEPT ![q] = [r EXCEPT !.pc = "ok", !.target = r.existing[r.i].id]]
        /\ UNCHANGED notSvcVars

\* trackProducts: const userRules = await getUserTrackingRules(user.lineUserId),
\* then the productRuleMap of the new products (stored: the documents read)
PassLookup ==
    /\ Len(reqs) < MaxRuleReqs
    /\ reqs' = Append(reqs,
          [NewReq("pass") EXCEPT
              !.pc = "ok",
              !.stored = db.trackingRules,
              !.matches = buildMatches(RulesNewProducts, rulesOf(db.trackingRules), 1, <<>>)])
    /\ UNCHANGED <<db, notSvcVars>>

NextRules ==
    \/ \E L \in RuleLists : PostConfig(L)
    \/ \E q \in DOMAIN reqs : PostRead(q)
    \/ \E q \in DOMAIN reqs : PostDelete(q)
    \/ \E q \in DOMAIN reqs : PostUpdate(q)
    \/ \E q \in DOMAIN reqs : PostUpdateThrows(q)
    \/ \E q \in DOMAIN reqs : PostAdd(q)
    \/ \E q \in DOMAIN reqs : PostEmpty(q)
    \/ \E d \in Range(DocIds) : DeleteRule(d)
    \/ \E n \in 1..MaxRuleList : DeleteCommand(n)
    \/ \E q \in DOMAIN reqs : CommandRead(q)
    \/ \E q \in DOMAIN reqs : CommandDelete(q)
    \/ PassLookup

SpecRules == InitRules /\ [][NextRules]_vars

\* the rule names of the product-rule map of a lookup, one per contribution
ContributedNames(matches) ==
    LET Upto[k \in 0..Len(matches)] ==
            IF k = 0 THEN <<>> ELSE Upto[k - 1] \o matches[k].matchingRules
    IN  Upto[Len(matches)]

\* C22: a rule with enabled = false contributes no match and no rule name to
\* the lookup of a tracking pass (every name contributed is the name of as
\* many stored enabled rules), and a step that removes a stored disabled rule
\* is a deletion a user asked for by naming that rule: the DELETE endpoint,
\* the /delete command, or the save of a list without it by a handler that
\* read the rule while it was enabled; no other step removes it
C22_DisabledRuleKept ==
    [][/\ \A q \in DOMAIN reqs' :
             reqs'[q].kind = "pass" =>
                LET names == ContributedNames(reqs'[q].matches)
                    stored == reqs'[q].stored
                IN  \A n \in Range(names) :
                       Cardinality({k \in DOMAIN names : names[k] = n})
                         = Cardinality({d \in DOMAIN stored :
                                           stored[d].enabled /\ stored[d].name = n})
       /\ \A d \in DOMAIN db.trackingRules :
             (~db.trackingRules[d].enabled /\ d \notin DOMAIN db'.trackingRules) =>
                \E q \in DOMAIN reqs' :
                   /\ q \notin DOMAIN reqs \/ reqs[q] # reqs'[q]
                   /\ reqs'[q].target = d
                   /\ \/ reqs'[q].kind = "delete"
                      \/ reqs'[q].kind = "command" /\ d \in IdsOf(reqs'[q].existing)
                      \/ /\ reqs'[q].kind = "post"
                         /\ d \in IdsOf(reqs'[q].existing)
                         /\ d \notin IdsOf(reqs'[q].L)]_vars

\* a pass looked the rules up while a disabled rule was stored and had a
\* match from an enabled one, and that disabled rule is still stored after a
\* config save without it has responded
C22_Witness ==
    \E q, c \in DOMAIN reqs : \E d \in DOMAIN db.trackingRules :
        /\ reqs[q].kind = "pass"
        /\ reqs[q].matches # <<>>
        /\ d \in DOMAIN reqs[q].stored
        /\ ~reqs[q].stored[d].enabled
        /\ ~db.trackingRules[d].enabled
        /\ reqs[c].kind = "post"
        /\ reqs[c].pc = "ok"
        /\ d \notin IdsOf(reqs[c].L)

\* what a client tells one rule from another by
RuleContent(r) == [name |-> r.name, enabled |-> r.enabled]

\* C27: when a POST /api/users/:userId/config carrying the list L responds
\* with success, the stored tracking rules are exactly the rules of L: as many
\* stored rules of each content as L has, and no other stored rule
C27_Original ==
    \A q \in DOMAIN reqs :
        (reqs[q].kind = "post" /\ reqs[q].pc = "ok") =>
            LET L == reqs[q].L
                stored == reqs[q].after
            IN  \A c \in {RuleContent(r) : r \in ClientRules \cup Range(stored)} :
                   Cardinality({d \in DOMAIN stored : RuleContent(stored[d]) = c})
                     = Cardinality({k \in DOMAIN L : RuleContent(L[k]) = c})

C28_Original ==
    \A p \in DOMAIN passes :
        passes[p].pc = "done" =>
            passes[p].result.notifiedUsers <= Len(passes[p].users)

\* C25: when a start request, with no other start or stop in flight, fails
\* because persisting the tracking state throws, the scheduler is left
\* stopped (isTracking false, no timer), so that a later start is accepted
C25_Original ==
    [][\A c \in DOMAIN starts :
          (/\ phase = "serving"
           /\ DOMAIN starts = {c}
           /\ DOMAIN stops = {}
           /\ StartSaveThrows(c))
          => (~isTracking' /\ trackingInterval' = 0 /\ timers' = {})]_vars

(***************************************************************************)
(* SpecSave: one saveProductHistory call on a list of any length; the      *)
(* store rejects the commit of a batch with more writes than it allows     *)
(***************************************************************************)
\* the store's maximum number of writes in one batch, scaled down
BatchLimit == 2
MaxSaveList == 3

\* listings whose document ids differ, and one that shares its key with another
SaveUrls == {UA, UAq, UC, UF}

InitSave ==
    /\ Constructed
    /\ systemState = FALSE
    /\ products = EmptyStore
    /\ savedKeys = {}
    /\ fin \in [list : SeqsUpTo({Listing(u) : u \in SaveUrls}, MaxSaveList)]
    /\ fout = [done |-> FALSE, commits |-> <<>>]

\* products.forEach(product => batch.set(...)); await batch.commit(): one
\* batch with one write per product of the list
SaveCommit ==
    /\ ~fout.done
    /\ Len(fin.list) <= BatchLimit
    /\ products' = saveProductHistory(products, fin.list)
    /\ fout' = [done |-> TRUE, commits |-> <<Len(fin.list)>>]
    /\ UNCHANGED <<appVars, systemState, savedKeys, svcVars, fin>>

\* the same commit with more writes than the store allows: it rejects and
\* nothing is written
SaveCommitRejected ==
    /\ ~fout.done
    /\ Len(fin.list) > BatchLimit
    /\ fout' = [done |-> TRUE, commits |-> <<Len(fin.list)>>]
    /\ UNCHANGED <<appVars, systemState, products, savedKeys, svcVars, fin>>

NextSave == SaveCommit \/ SaveCommitRejected

SpecSave == InitSave /\ [][NextSave]_vars

\* C24: once saveProductHistory has run on a list, of any length, every
\* product of the list is persisted, and no batch it committed has more
\* writes than the store's maximum batch size
C24_Original ==
    fout.done =>
        /\ \A k \in DOMAIN fout.commits : fout.commits[k] <= BatchLimit
        /\ KeysOf(fin.list) \subseteq StoredKeys(products)

(***************************************************************************)
(* SpecUsers: the document of one user in the collection 'users'.          *)
(* getOrCreateUser calls (one per event of a webhook, run by Promise.all)  *)
(* and updates of the user run await by await, interleaved                 *)
(***************************************************************************)
MaxUserReqs == 3

\* const userData = { lineUserId, createdAt, isActive: true,
\*                    settings: { notifications: { line: true, email: false } } }
NewUserData ==
    [isActive |-> TRUE, email |-> NULL, notifications |-> [line |-> TRUE, email |-> FALSE]]

Emails == {"a@example.com"}

NotificationSettings == {[line |-> TRUE, email |-> TRUE], [line |-> FALSE, email |-> TRUE]}

NoUser == [d \in {} |-> NULL]

InitUsers ==
    /\ phase = "serving"
    /\ initialized = TRUE
    /\ isTracking = FALSE
    /\ trackingInterval = 0
    /\ timers = {}
    /\ nTimers = 0
    /\ systemState = FALSE
    /\ products = EmptyStore
    /\ starts = <<>>
    /\ stops = <<>>
    /\ nReqs = 0
    /\ quiet = FALSE
    /\ passes = <<>>
    /\ nPasses = 0
    /\ nTicks = 0
    /\ seenKeys = {}
    /\ savedKeys = {}
    /\ fin = NoOut
    /\ fout = NoOut
    /\ db = [users |-> NoUser, written |-> {}]
    /\ reqs = <<>>

\* registerUser(userId): await getOrCreateUser(userId), up to its first await
GetOrCreateUser ==
    /\ Len(reqs) < MaxUserReqs
    /\ reqs' = Append(reqs, [kind |-> "getOrCreateUser", pc |-> "get"])
    /\ UNCHANGED <<db, notSvcVars>>

\* let user = await this.getUser(lineUserId); if (!user) ... else return user
GetUser(q) ==
    /\ reqs[q].pc = "get"
    /\ reqs' = [reqs EXCEPT ![q].pc = IF "u1" \in DOMAIN db.users THEN "ok" ELSE "create"]
    /\ UNCHANGED <<db, notSvcVars>>

\* await this.db.collection('users').doc(lineUserId).set(userData): the
\* document is replaced as a whole
createUser(users) == [d \in {"u1"} |-> NewUserData]

\* user = await this.createUser(lineUserId)
CreateUser(q) ==
    /\ reqs[q].pc = "create"
    /\ db' = [db EXCEPT !.users = createUser(@)]
    /\ reqs' = [reqs EXCEPT ![q].pc = "ok"]
    /\ UNCHANGED notSvcVars

\* updateUserEmail(lineUserId, email): userRef.update({ email, updatedAt })
UpdateUserEmail(email) ==
    /\ Len(reqs) < MaxUserReqs
    /\ "u1" \in DOMAIN db.users
    /\ db' = [db EXCEPT !.users["u1"].email = email, !.written = @ \cup {"email"}]
    /\ reqs' = Append(reqs, [kind |-> "updateUserEmail", pc |-> "ok"])
    /\ UNCHANGED notSvcVars

\* updateUserNotificationSettings(lineUserId, notificationSettings):
\* userRef.update({ 'settings.notifications': notificationSettings, updatedAt })
UpdateUserNotificationSettings(notificationSettings) ==
    /\ Len(reqs) < MaxUserReqs
    /\ "u1" \in DOMAIN db.users
    /\ db' = [db EXCEPT !.users["u1"].notifications = notificationSettings,
                        !.written = @ \cup {"notifications"}]
    /\ reqs' = Append(reqs, [kind |-> "updateUserNotificationSettings", pc |-> "ok"])
    /\ UNCHANGED notSvcVars

\* update() of a document that is not there rejects
UpdateUserThrows ==
    /\ Len(reqs) < MaxUserReqs
    /\ "u1" \notin DOMAIN db.users
    /\ reqs' = Append(reqs, [kind |-> "update", pc |-> "err"])
    /\ UNCHANGED <<db, notSvcVars>>

NextUsers ==
    \/ GetOrCreateUser
    \/ \E q \in DOMAIN reqs : GetUser(q)
    \/ \E q \in DOMAIN reqs : CreateUser(q)
    \/ \E email \in Emails : UpdateUserEmail(email)
    \/ \E n \in NotificationSettings : UpdateUserNotificationSettings(n)
    \/ UpdateUserThrows

SpecUsers == InitUsers /\ [][NextUsers]_vars

\* C26: under every interleaving of getOrCreateUser calls for one user id
\* with updates of that user, a creation leaves every field that an update
\* has written as it is stored
C26_Original ==
    [][\A q \in DOMAIN reqs :
          (CreateUser(q) /\ "u1" \in DOMAIN db.users)
          => \A f \in db.written : db'.users["u1"][f] = db.users["u1"][f]]_vars

(***************************************************************************)
(* SpecSummary: the summary scheduler and one active user with the daily   *)
(* summary enabled. Time is counted in units of five minutes from 00:00    *)
(* UTC of day 0, on a day scaled down to DayLen units                      *)
(***************************************************************************)
DayLen == 12
MaxDays == 2

\* setInterval(..., 10 * 60 * 1000): ten minutes
CheckEvery == 2

\* currentTotalMinutes <= scheduledTotalMinutes + 10: ten minutes
MatchWindow == 2

\* the offsets of the server's local time from UTC: none, and a third of a
\* day ahead (UTC+8); a user who was never sent a summary has date -1
TzOffsets == {0, DayLen \div 3}

\* new Date().toISOString().split('T')[0]: the date in UTC
today(now) == now \div DayLen

\* now.getHours() * 60 + now.getMinutes(): the local time of day
currentTotalMinutes(now, tz) == (now + tz) % DayLen

\* the calendar day of the server's clock
LocalDay(now, tz) == (now + tz) \div DayLen

InitSummary ==
    /\ phase = "serving"
    /\ initialized = TRUE
    /\ isTracking = FALSE
    /\ trackingInterval = 0
    /\ timers = {}
    /\ nTimers = 0
    /\ systemState = FALSE
    /\ products = EmptyStore
    /\ starts = <<>>
    /\ stops = <<>>
    /\ nReqs = 0
    /\ quiet = FALSE
    /\ passes = <<>>
    /\ nPasses = 0
    /\ nTicks = 0
    /\ seenKeys = {}
    /\ savedKeys = {}
    /\ fin = NoOut
    /\ fout = NoOut
    /\ \E tz \in TzOffsets, time \in 0..(DayLen - 1), first \in 0..(CheckEvery - 1) :
          db = [tz |-> tz, time |-> time, first |-> first, now |-> first, due |-> TRUE,
                lastSummaryDate |-> -1, sent |-> {}]
    /\ reqs = <<>>

\* the user passes the tests of sendDailySummary: the summary of today has
\* not been sent, and the local time is in the window after the summary time
timeMatched ==
    /\ db.lastSummaryDate # today(db.now)
    /\ currentTotalMinutes(db.now, db.tz) >= db.time
    /\ currentTotalMinutes(db.now, db.tz) <= db.time + MatchWindow

\* FirebaseService.updateUserLastSummaryDate: the date is stored in the user's
\* record
updateUserLastSummaryDate(user, date) == [user EXCEPT !.lastSummaryDate = date]

\* a check: sendDailySummary sends the summary and stores today's date
CheckSends ==
    /\ db.due
    /\ timeMatched
    /\ db' = updateUserLastSummaryDate(
                [db EXCEPT !.due = FALSE, !.sent = @ \cup {db.now}], today(db.now))
    /\ UNCHANGED <<reqs, notSvcVars>>

\* a check in which a test says continue
CheckSkips ==
    /\ db.due
    /\ ~timeMatched
    /\ db' = [db EXCEPT !.due = FALSE]
    /\ UNCHANGED <<reqs, notSvcVars>>

\* a check in which generateDailySummary returns null from its catch: if
\* (summary) fails
CheckNoSummary ==
    /\ db.due
    /\ timeMatched
    /\ db' = [db EXCEPT !.due = FALSE]
    /\ UNCHANGED <<reqs, notSvcVars>>

\* five minutes pass; every CheckEvery units the interval fires
ClockAdvance ==
    /\ ~db.due
    /\ db.now + 1 < MaxDays * DayLen
    /\ db' = [db EXCEPT !.now = @ + 1,
                        !.due = (db.now + 1 - db.first) % CheckEvery = 0]
    /\ UNCHANGED <<reqs, notSvcVars>>

NextSummary == CheckSends \/ CheckSkips \/ CheckNoSummary \/ ClockAdvance

SpecSummary == InitSummary /\ [][NextSummary]_vars

\* C29: the scheduler sends the user at most one daily summary per calendar
\* day, for every summary time and every sequence of checks ten minutes apart
C29_Original ==
    \A t1, t2 \in db.sent :
        LocalDay(t1, db.tz) = LocalDay(t2, db.tz) => t1 = t2

(***************************************************************************)
(* SpecSettings: the settings server (server.js). db.file is the content   *)
(* of user-settings.json; POST /api/settings handlers run await by await,  *)
(* interleaved                                                             *)
(***************************************************************************)
MaxSettingReqs == 2

\* the bodies posted: userId = NULL is a body without userId
NewSettings == [userId : {"u1", "u2", NULL}, maxPrice : {1, 2}]

InitSettings ==
    /\ phase = "serving"
    /\ initialized = FALSE
    /\ isTracking = FALSE
    /\ trackingInterval = 0
    /\ timers = {}
    /\ nTimers = 0
    /\ systemState = FALSE
    /\ products = EmptyStore
    /\ starts = <<>>
    /\ stops = <<>>
    /\ nReqs = 0
    /\ quiet = FALSE
    /\ passes = <<>>
    /\ nPasses = 0
    /\ nTicks = 0
    /\ seenKeys = {}
    /\ savedKeys = {}
    /\ fin = NoOut
    /\ fout = NoOut
    /\ db = [file |-> <<>>]
    /\ reqs = <<>>

\* app.post('/api/settings'): up to await fs.readFile
PostSettings(newSetting) ==
    /\ Len(reqs) < MaxSettingReqs
    /\ newSetting.userId # NULL
    /\ reqs' = Append(reqs, [pc |-> "read", newSetting |-> newSetting, settings |-> <<>>])
    /\ UNCHANGED <<db, notSvcVars>>

\* if (!newSetting.userId) return res.status(400)
PostSettingsRejected(newSetting) ==
    /\ Len(reqs) < MaxSettingReqs
    /\ newSetting.userId = NULL
    /\ reqs' = Append(reqs, [pc |-> "err", newSetting |-> newSetting, settings |-> <<>>])
    /\ UNCHANGED <<db, notSvcVars>>

\* index = settings.findIndex(s => s.userId === newSetting.userId);
\* settings[index] = newSetting, or settings.push(newSetting)
putSetting(settings, newSetting) ==
    LET at == {k \in DOMAIN settings : settings[k].userId = newSetting.userId}
    IN  IF at # {} THEN [settings EXCEPT ![SetMin(at)] = newSetting]
        ELSE Append(settings, newSetting)

\* settings = JSON.parse(await fs.readFile(SETTINGS_FILE)), then the change
\* of the list, up to await fs.writeFile
SettingsRead(q) ==
    /\ reqs[q].pc = "read"
    /\ reqs' = [reqs EXCEPT ![q] = [@ EXCEPT !.pc = "write",
                                             !.settings = putSetting(db.file, reqs[q].newSetting)]]
    /\ UNCHANGED <<db, notSvcVars>>

\* await fs.writeFile(SETTINGS_FILE, JSON.stringify(settings)); res.json({ success: true })
SettingsWrite(q) ==
    /\ reqs[q].pc = "write"
    /\ db' = [db EXCEPT !.file = reqs[q].settings]
    /\ reqs' = [reqs EXCEPT ![q].pc = "ok"]
    /\ UNCHANGED notSvcVars

NextSettings ==
    \/ \E n \in NewSettings : PostSettings(n)
    \/ \E n \in NewSettings : PostSettingsRejected(n)
    \/ \E q \in DOMAIN reqs : SettingsRead(q)
    \/ \E q \in DOMAIN reqs : SettingsWrite(q)

SpecSettings == InitSettings /\ [][NextSettings]_vars

\* the requests that were accepted
Posted == {reqs[q].newSetting : q \in {k \in DOMAIN reqs : reqs[k].pc # "err"}}

\* C30: once every accepted POST /api/settings has responded, in whatever
\* interleaving they were handled, the settings file holds exactly one entry
\* for each userId posted, and that entry is one of the values posted for it
C30_Original ==
    (\A q \in DOMAIN reqs : reqs[q].pc \in {"ok", "err"}) =>
        /\ \A n \in Posted :
              Cardinality({k \in DOMAIN db.file : db.file[k].userId = n.userId}) = 1
        /\ \A k \in DOMAIN db.file : db.file[k] \in Posted

====
